---- MODULE Spec2Model ----
(***************************************************************************)
(* Lighthouse report helper of the Playwright automation framework:        *)
(* the date/time bucketed report store (saveReportWithDateTime), the       *)
(* scanner, aggregator and renderer (generateConsolidatedReportWithDateTime*)
(* and generateConsolidatedReport) and the score classifier.               *)
(*                                                                         *)
(* The file system is a set of directories and a map from file paths to    *)
(* contents; a path is a sequence of names relative to process.cwd().      *)
(* A Date is a number of milliseconds; the model counts them from          *)
(* 00:00:00 UTC of day BaseDay (a day number since 1970-01-01), because    *)
(* milliseconds since 1970 do not fit the checker's integers.              *)
(***************************************************************************)
EXTENDS Integers, Sequences, FiniteSets, TLC

VARIABLES
  now,      \* the clock: the value of Date.now()
  dirs,     \* the directories below process.cwd()
  files,    \* the files below process.cwd(): path -> content
  result,   \* the last operation, what it returned or that it threw
  written,  \* history: path -> the call of saveReportWithDateTime that wrote it
  used,     \* how many files the saves and other people have put into the store
  probe,    \* the score handed to the three classifiers
  workers,  \* the Playwright workers: where each stands in its test
  readOnly  \* the directories the process may not create entries in

vars == <<now, dirs, files, result, written, used, probe, workers, readOnly>>

(***************************************************************************)
(* Bounds of the model.                                                    *)
(***************************************************************************)
MaxTicks == 3
MaxWrites == 2
MaxLoaded == 3

(***************************************************************************)
(* The clock of the machine the suite runs on.                             *)
(***************************************************************************)
BaseDay == 20156
TzOffsetMinutes == 330
ClockStart == 66598500
TickMs == 500

MsPerSecond == 1000
MsPerMinute == 60000
MsPerHour == 3600000
MsPerDay == 86400000

\* Proleptic Gregorian date of a day number since 1970-01-01, computed era
\* by era: day of era, year of era, day of year (from 1 March), month.
CivilFromDoy(era, yoe, doy) ==
  LET mp == (5 * doy + 2) \div 153
      m == IF mp < 10 THEN mp + 3 ELSE mp - 9
  IN  [year |-> yoe + era * 400 + (IF m <= 2 THEN 1 ELSE 0),
       month |-> m,
       day |-> doy - (153 * mp + 2) \div 5 + 1]

CivilFromYoe(era, doe, yoe) ==
  CivilFromDoy(era, yoe, doe - (365 * yoe + yoe \div 4 - yoe \div 100))

CivilFromDoe(era, doe) ==
  CivilFromYoe(era, doe,
               (doe - doe \div 1460 + doe \div 36524 - doe \div 146096) \div 365)

CivilFromZ(z) == CivilFromDoe(z \div 146097, z % 146097)

CivilFromDays(days) == CivilFromZ(days + 719468)

\* Day number since 1970-01-01 of a proleptic Gregorian date.
DaysFromYoe(era, yoe, doy) ==
  era * 146097 + yoe * 365 + yoe \div 4 - yoe \div 100 + doy - 719468

DaysFromShifted(y, mp, d) ==
  DaysFromYoe(y \div 400, y % 400, (153 * mp + 2) \div 5 + d - 1)

DaysFromCivil(y0, m, d) ==
  IF m <= 2 THEN DaysFromShifted(y0 - 1, m + 9, d) ELSE DaysFromShifted(y0, m - 3, d)

\* The calendar fields of the day c and the time of day r.
FieldsOf(c, r) ==
  [year |-> c.year, month |-> c.month, day |-> c.day,
   hours |-> r \div MsPerHour,
   minutes |-> (r % MsPerHour) \div MsPerMinute,
   seconds |-> (r % MsPerMinute) \div MsPerSecond,
   millis |-> r % MsPerSecond]

\* The calendar fields of the instant ms shifted by offsetMs.
DateFields(ms, offsetMs) ==
  FieldsOf(CivilFromDays(BaseDay + (ms + offsetMs) \div MsPerDay),
           (ms + offsetMs) % MsPerDay)

\* getFullYear, getMonth() + 1, getDate, getHours, ...: local time.
LocalFields(ms) == DateFields(ms, TzOffsetMinutes * MsPerMinute)

\* The fields toISOString prints: UTC.
UTCFields(ms) == DateFields(ms, 0)

\* String(n).padStart(width, '0')
RECURSIVE padStart(_, _)
padStart(s, width) == IF Len(s) >= width THEN s ELSE padStart("0" \o s, width)

Pad2(n) == padStart(ToString(n), 2)

\* Date.prototype.toISOString: YYYY-MM-DDTHH:mm:ss.sssZ
ISOStringOf(f) ==
  padStart(ToString(f.year), 4) \o "-" \o Pad2(f.month) \o "-" \o Pad2(f.day)
    \o "T" \o Pad2(f.hours) \o ":" \o Pad2(f.minutes) \o ":" \o Pad2(f.seconds)
    \o "." \o padStart(ToString(f.millis), 3) \o "Z"

toISOString(ms) == ISOStringOf(UTCFields(ms))

DigitChars == {"0", "1", "2", "3", "4", "5", "6", "7", "8", "9"}

IsDigit(c) == c \in DigitChars

DigitVal(c) ==
  CASE c = "0" -> 0 [] c = "1" -> 1 [] c = "2" -> 2 [] c = "3" -> 3 [] c = "4" -> 4
    [] c = "5" -> 5 [] c = "6" -> 6 [] c = "7" -> 7 [] c = "8" -> 8 [] c = "9" -> 9

IsNumeral(s) == Len(s) > 0 /\ \A i \in 1..Len(s) : IsDigit(SubSeq(s, i, i))

\* The number a string of decimal digits denotes.
RECURSIVE ParseInt(_)
ParseInt(s) ==
  IF Len(s) = 0 THEN 0
  ELSE 10 * ParseInt(SubSeq(s, 1, Len(s) - 1)) + DigitVal(SubSeq(s, Len(s), Len(s)))

\* new Date(s).getTime() for an ISO string s.
DateParse(s) ==
  (DaysFromCivil(ParseInt(SubSeq(s, 1, 4)), ParseInt(SubSeq(s, 6, 7)),
                 ParseInt(SubSeq(s, 9, 10))) - BaseDay) * MsPerDay
    + ParseInt(SubSeq(s, 12, 13)) * MsPerHour
    + ParseInt(SubSeq(s, 15, 16)) * MsPerMinute
    + ParseInt(SubSeq(s, 18, 19)) * MsPerSecond
    + ParseInt(SubSeq(s, 21, 23))

\* The instants the clock can show.
Instants == {ClockStart + k * TickMs : k \in 0..MaxTicks}

(***************************************************************************)
(* getDateTimePath                                                         *)
(***************************************************************************)
\* `${year}-${month}-${day}`
dateFolderOf(f) == ToString(f.year) \o "-" \o Pad2(f.month) \o "-" \o Pad2(f.day)

\* `${hours}-${minutes}-${seconds}`
timeFolderOf(f) == Pad2(f.hours) \o "-" \o Pad2(f.minutes) \o "-" \o Pad2(f.seconds)

\* The folder and the dateTime getDateTimePath builds from the fields of now.
DateTimePathOf(f) ==
  [folder |-> <<dateFolderOf(f), timeFolderOf(f)>>,
   dateTime |-> dateFolderOf(f) \o " " \o Pad2(f.hours) \o ":"
                  \o Pad2(f.minutes) \o ":" \o Pad2(f.seconds)]

getDateTimePath(ms) == DateTimePathOf(LocalFields(ms))

(***************************************************************************)
(* JavaScript numbers and values.  A property whose value may be undefined  *)
(* holds a sequence: <<>> for undefined, <<v>> for the value v.  A metric   *)
(* is a fixed-point number, counted in thousandths.                         *)
(***************************************************************************)
Undefined == <<>>

\* Math.round(num / den): the nearest integer, a half rounding up;
\* num / 0 is NaN or Infinity, which Math.round returns unchanged.
MathRound(num, den) ==
  IF den = 0 THEN (IF num = 0 THEN "NaN" ELSE "Infinity")
  ELSE ToString((2 * num + den) \div (2 * den))

\* Math.round(score * 100) of a category score given in hundredths.
RoundScore(hundredths) == (2 * hundredths * 100 + 100) \div (2 * 100)

\* Number.prototype.toFixed(0) of a number given in thousandths.
toFixed0(th) == ToString((2 * th + 1000) \div 2000)

\* Number.prototype.toFixed(3) of a number given in thousandths.
toFixed3(th) == ToString(th \div 1000) \o "." \o padStart(ToString(th % 1000), 3)

\* Date.prototype.toLocaleString() in the en-US locale.
LocaleStringOf(f) ==
  ToString(f.month) \o "/" \o ToString(f.day) \o "/" \o ToString(f.year) \o ", "
    \o ToString(IF f.hours % 12 = 0 THEN 12 ELSE f.hours % 12)
    \o ":" \o Pad2(f.minutes) \o ":" \o Pad2(f.seconds)
    \o (IF f.hours < 12 THEN " AM" ELSE " PM")

toLocaleString(ms) == LocaleStringOf(LocalFields(ms))

\* The properties the interfaces declare optional (pwa?: number).
OptionalProps == {"pwa"}

\* obj[key] === undefined
IsUndefined(obj, key) ==
  key \notin DOMAIN obj \/ (key \in OptionalProps /\ obj[key] = Undefined)

\* a[key] === b[key], for properties that hold strings, numbers or JSON trees
SameProp(a, b, key) ==
  /\ IsUndefined(a, key) = IsUndefined(b, key)
  /\ ~IsUndefined(a, key) => a[key] = b[key]

(***************************************************************************)
(* The audit results (lhr) the audit engine hands to generateReport.       *)
(* A category score is given in hundredths, as Lighthouse reports it.      *)
(***************************************************************************)
Lhr1 ==
  [categories |-> [performance |-> [score |-> 80], accessibility |-> [score |-> 49],
                   bestPractices |-> [score |-> 100], seo |-> [score |-> 92],
                   pwa |-> [score |-> 30]],
   audits |-> [fcp |-> [numericValue |-> 1080532], lcp |-> [numericValue |-> 1080532],
               cls |-> [numericValue |-> 0]]]

Lhr2 ==
  [categories |-> [performance |-> [score |-> 90], accessibility |-> [score |-> 100],
                   bestPractices |-> [score |-> 50], seo |-> [score |-> 89]],
   audits |-> [fcp |-> [numericValue |-> 1799500], lcp |-> [numericValue |-> 2500499],
               cls |-> [numericValue |-> 43], ttfb |-> [numericValue |-> 600000]]]

Lhr3 ==
  [categories |-> [performance |-> [score |-> 100], accessibility |-> [score |-> 98],
                   bestPractices |-> [score |-> 0], seo |-> [score |-> 50]],
   audits |-> [fcp |-> [numericValue |-> 900000], lcp |-> [numericValue |-> 1200000],
               cls |-> [numericValue |-> 101], fid |-> [numericValue |-> 16000],
               inp |-> [numericValue |-> 200000], ttfb |-> [numericValue |-> 120250]]]

\* The audits of the model: the suite that runs it (the date/time suite
\* audits STAGING_URL, the older suite https://playwright.dev), the page,
\* the result, and how many ticks before the save generateReport stamped it.
AuditResults ==
  {[suite |-> "dateTime", url |-> "https://staging.example.com/dashboard",
    lhr |-> Lhr1, age |-> 0],
   [suite |-> "dateTime", url |-> "https://staging.example.com/dashboard",
    lhr |-> Lhr2, age |-> 1],
   [suite |-> "flat", url |-> "https://playwright.dev", lhr |-> Lhr3, age |-> 0]}

extractScores(lhr) ==
  [performance |-> RoundScore(lhr.categories.performance.score),
   accessibility |-> RoundScore(lhr.categories.accessibility.score),
   bestPractices |-> RoundScore(lhr.categories.bestPractices.score),
   seo |-> RoundScore(lhr.categories.seo.score),
   pwa |-> IF "pwa" \in DOMAIN lhr.categories
           THEN <<RoundScore(lhr.categories.pwa.score)>> ELSE Undefined]

\* A metric without the default: a missing audit gives -1.
NumericValueOrMinus1(audits, id) ==
  IF id \in DOMAIN audits THEN audits[id].numericValue ELSE -1

\* audits[id]?.numericValue || 0
NumericValueOr0(audits, id) == IF id \in DOMAIN audits THEN audits[id].numericValue ELSE 0

extractMetrics(lhr) ==
  [fcp |-> NumericValueOr0(lhr.audits, "fcp"),
   lcp |-> NumericValueOr0(lhr.audits, "lcp"),
   cls |-> NumericValueOr0(lhr.audits, "cls"),
   fid |-> NumericValueOr0(lhr.audits, "fid"),
   inp |-> NumericValueOr0(lhr.audits, "inp"),
   ttfb |-> NumericValueOr0(lhr.audits, "ttfb")]

\* The report generateReport builds from an audit that ended at instant ms.
generateReport(url, lhr, ms) ==
  [url |-> url,
   timestamp |-> toISOString(ms),
   scores |-> extractScores(lhr),
   metrics |-> extractMetrics(lhr),
   rawAudits |-> lhr]

ScoreFields == {"performance", "accessibility", "bestPractices", "seo", "pwa"}
MetricFields == {"fcp", "lcp", "cls", "fid", "inp", "ttfb"}

(***************************************************************************)
(* JSON: fs.writeJSON stores JSON.stringify(report), fs.readJSON returns   *)
(* JSON.parse of the text.  The text is kept as the tree of its members.   *)
(***************************************************************************)
\* JSON.stringify leaves out the properties whose value is undefined.
StringifyObject(obj) ==
  [k \in {key \in DOMAIN obj : ~IsUndefined(obj, key)} |-> obj[k]]

\* A serializer that writes the scores and metrics but not the raw audit.
JSONstringifyWithoutRawAudits(report) ==
  [kind |-> "json",
   body |-> [url |-> report.url,
             timestamp |-> report.timestamp,
             scores |-> StringifyObject(report.scores),
             metrics |-> StringifyObject(report.metrics)]]

JSONstringify(report) ==
  [kind |-> "json",
   body |-> [url |-> report.url,
             timestamp |-> report.timestamp,
             scores |-> StringifyObject(report.scores),
             metrics |-> StringifyObject(report.metrics),
             rawAudits |-> report.rawAudits]]

\* fs.readJSON throws on what is not a file holding JSON text.
IsJSON(content) == content.kind = "json"

JSONparse(content) == content.body

(***************************************************************************)
(* The file system below process.cwd().                                    *)
(***************************************************************************)
ReportsRoot == <<"test-results", "lighthouse-reports">>
DefaultOutputPath == <<"playwright-report", "lighthouse_reports", "lighthouse-report-latest.html">>
FlatOutputPath == <<"playwright-report", "lighthouse_reports", "index.html">>

Last(p) == p[Len(p)]
\* path.dirname
dirname(p) == SubSeq(p, 1, Len(p) - 1)
\* path.join(dir, name) for a name without separators
join(dir, name) == Append(dir, name)

\* String.prototype.endsWith
endsWith(s, suffix) ==
  Len(s) >= Len(suffix) /\ SubSeq(s, Len(s) - Len(suffix) + 1, Len(s)) = suffix

Prefixes(p) == {SubSeq(p, 1, i) : i \in 0..Len(p)}

\* fs.pathExists
pathExists(d, f, p) == p \in d \/ p \in DOMAIN f

\* fs.ensureDir: mkdir -p; fails when a component of the path is a file
\* (ENOTDIR, EEXIST), or when the first missing component would have to be
\* created in a directory without write permission (EACCES).
ensureDirFails(d, f, p) ==
  \/ \E q \in Prefixes(p) : q \in DOMAIN f
  \/ \E q \in Prefixes(p) \ {<<>>} :
       q \notin d /\ dirname(q) \in d /\ dirname(q) \in readOnly
ensureDir(d, f, p) == d \cup Prefixes(p)

\* fs.writeFile / fs.writeJSON: fails when the parent is not a directory,
\* when the path is a directory, or when the file would have to be created
\* in a directory without write permission; replaces the content of an
\* existing file.
writeFileFails(d, f, p) ==
  \/ dirname(p) \notin d
  \/ p \in d
  \/ p \notin DOMAIN f /\ dirname(p) \in readOnly
writeFile(f, p, content) == [q \in DOMAIN f \cup {p} |-> IF q = p THEN content ELSE f[q]]

\* The names fs.readdir(dir) returns, as full paths.
Entries(d, f, dir) ==
  {p \in d \cup DOMAIN f : Len(p) = Len(dir) + 1 /\ dirname(p) = dir}

\* (await fs.stat(p)).isDirectory()
isDirectory(d, p) == p \in d

(***************************************************************************)
(* Score tiers of the three renderers.                                     *)
(***************************************************************************)
\* convertToHTML: getScoreClass
getScoreClass(score) ==
  IF score >= 90 THEN "score-good"
  ELSE IF score >= 50 THEN "score-average"
  ELSE "score-poor"

\* generateConsolidatedReport: the class of a score cell
flatScoreClass(score) ==
  IF score >= 90 THEN "good" ELSE IF score >= 50 THEN "avg" ELSE "poor"

\* A classifier whose upper tier starts above 90.
dateTimeScoreClassAbove90(score) ==
  IF score > 90 THEN "good" ELSE IF score >= 50 THEN "avg" ELSE "poor"

\* generateConsolidatedReportWithDateTime: the class of a score cell
dateTimeScoreClass(score) ==
  IF score >= 90 THEN "good" ELSE IF score >= 50 THEN "avg" ELSE "poor"

(***************************************************************************)
(* Aggregation and rendering.  An HTML document is kept as the record of   *)
(* the texts the template interpolates; '' (no document) is <<>>.          *)
(***************************************************************************)
\* A comparator with its operands exchanged: oldest first.
compareReportsAscending(a, b) == DateParse(a.timestamp) - DateParse(b.timestamp)

\* (a, b) => new Date(b.timestamp).getTime() - new Date(a.timestamp).getTime()
compareReports(a, b) == DateParse(b.timestamp) - DateParse(a.timestamp)

\* One step of a stable sort: x goes behind the k elements that do not
\* follow it.
insertAt(s, x, k) == SubSeq(s, 1, k) \o <<x>> \o SubSeq(s, k + 1, Len(s))

insertReport(s, x) ==
  insertAt(s, x, Cardinality({i \in 1..Len(s) : compareReports(s[i], x) <= 0}))

\* reports.sort(compare): Array.prototype.sort is stable.
RECURSIVE sortReports(_)
sortReports(reports) ==
  IF reports = <<>> THEN <<>>
  ELSE insertReport(sortReports(SubSeq(reports, 1, Len(reports) - 1)),
                    reports[Len(reports)])

\* reports.reduce((sum, r) => sum + r.scores[category], 0)
RECURSIVE sumScores(_, _)
sumScores(reports, category) ==
  IF reports = <<>> THEN 0
  ELSE sumScores(SubSeq(reports, 1, Len(reports) - 1), category)
         + reports[Len(reports)].scores[category]

\* An average that truncates: Math.floor in place of Math.round.
averageScoreFloor(reports, category) ==
  IF Len(reports) = 0 THEN "NaN"
  ELSE ToString(sumScores(reports, category) \div Len(reports))

\* A mean that skips the reports without the category: the missing score
\* adds 0 to the sum.
averageScoreMissingAsZero(reports, category) ==
  MathRound(sumScores(SelectSeq(reports, LAMBDA r : category \in DOMAIN r.scores),
                      category),
            Len(reports))

\* Math.round(reports.reduce(...) / reports.length); sum + undefined is NaN,
\* and stays NaN through the division and Math.round.
averageScore(reports, category) ==
  IF \E i \in 1..Len(reports) : category \notin DOMAIN reports[i].scores
  THEN "NaN"
  ELSE MathRound(sumScores(reports, category), Len(reports))

\* A summary with a card for each of the four categories.
dateTimeSummaryOfFour(reports) ==
  << [label |-> "Total Reports", value |-> ToString(Len(reports))],
     [label |-> "Avg Performance", value |-> averageScore(reports, "performance")],
     [label |-> "Avg Accessibility", value |-> averageScore(reports, "accessibility")],
     [label |-> "Avg Best Practices", value |-> averageScore(reports, "bestPractices")],
     [label |-> "Avg SEO", value |-> averageScore(reports, "seo")] >>

\* The summary cards of generateConsolidatedReportWithDateTime.
dateTimeSummary(reports) ==
  << [label |-> "Total Reports", value |-> ToString(Len(reports))],
     [label |-> "Avg Performance", value |-> averageScore(reports, "performance")],
     [label |-> "Avg Accessibility", value |-> averageScore(reports, "accessibility")],
     [label |-> "Avg SEO", value |-> averageScore(reports, "seo")] >>

\* The summary cards of generateConsolidatedReport.
flatSummary(reports) ==
  << [label |-> "Total Reports", value |-> ToString(Len(reports))],
     [label |-> "Avg Performance", value |-> averageScore(reports, "performance")],
     [label |-> "Avg Accessibility", value |-> averageScore(reports, "accessibility")],
     [label |-> "Avg SEO", value |-> averageScore(reports, "seo")] >>

\* A score cell of a row: the class of the score and `${score}`. A score
\* the document lacks is undefined: no comparison with it holds, and the
\* template prints the word.
dateTimeCell(scores, category) ==
  IF category \in DOMAIN scores
  THEN [class |-> dateTimeScoreClass(scores[category]),
        text |-> ToString(scores[category])]
  ELSE [class |-> "poor", text |-> "undefined"]

flatCell(scores, category) ==
  IF category \in DOMAIN scores
  THEN [class |-> flatScoreClass(scores[category]), text |-> ToString(scores[category])]
  ELSE [class |-> "poor", text |-> "undefined"]

\* The <tr> of one report in generateConsolidatedReportWithDateTime.
dateTimeRow(r) ==
  [url |-> r.url,
   performance |-> dateTimeCell(r.scores, "performance"),
   accessibility |-> dateTimeCell(r.scores, "accessibility"),
   bestPractices |-> dateTimeCell(r.scores, "bestPractices"),
   seo |-> dateTimeCell(r.scores, "seo"),
   fcp |-> toFixed0(r.metrics.fcp) \o "ms",
   lcp |-> toFixed0(r.metrics.lcp) \o "ms",
   cls |-> toFixed3(r.metrics.cls),
   tested |-> toLocaleString(DateParse(r.timestamp))]

\* The <tr> of one report in generateConsolidatedReport.
flatRow(r) ==
  [url |-> r.url,
   performance |-> flatCell(r.scores, "performance"),
   accessibility |-> flatCell(r.scores, "accessibility"),
   bestPractices |-> flatCell(r.scores, "bestPractices"),
   seo |-> flatCell(r.scores, "seo"),
   fcp |-> toFixed0(r.metrics.fcp) \o "ms",
   lcp |-> toFixed0(r.metrics.lcp) \o "ms",
   cls |-> toFixed3(r.metrics.cls),
   tested |-> toLocaleString(DateParse(r.timestamp))]

\* A template whose footer carries Date.now() in place of the dateTime.
dateTimeDocumentStampedInMs(sorted, dateTime) ==
  [html |-> << [title |-> "Lighthouse Reports - " \o dateTime,
                generated |-> "Generated: " \o dateTime,
                summary |-> dateTimeSummary(sorted),
                rows |-> [i \in 1..Len(sorted) |-> dateTimeRow(sorted[i])],
                footer |-> "Generated on " \o ToString(now) \o " | Total Reports: "
                             \o ToString(Len(sorted))] >>,
   divisors |-> {Len(sorted)}]

\* The template of generateConsolidatedReportWithDateTime, filled with the
\* sorted reports.  divisors are the values of reports.length the averages
\* were divided by.
dateTimeDocument(sorted, dateTime) ==
  [html |-> << [title |-> "Lighthouse Reports - " \o dateTime,
                generated |-> "Generated: " \o dateTime,
                summary |-> dateTimeSummary(sorted),
                rows |-> [i \in 1..Len(sorted) |-> dateTimeRow(sorted[i])],
                footer |-> "Generated on " \o dateTime \o " | Total Reports: "
                             \o ToString(Len(sorted))] >>,
   divisors |-> {Len(sorted)}]

\* A renderer without the reports.length === 0 check.
renderDateTimeWithoutEmptyCheck(reports, dateTime) ==
  dateTimeDocument(sortReports(reports), dateTime)

\* The part of generateConsolidatedReportWithDateTime behind the scan:
\* the empty check, the sort and the template.
renderDateTime(reports, dateTime) ==
  IF Len(reports) = 0
  THEN [html |-> <<>>, divisors |-> {}]
  ELSE dateTimeDocument(sortReports(reports), dateTime)

\* The template of generateConsolidatedReport, filled with the sorted reports.
flatDocument(sorted, ms) ==
  [html |-> << [title |-> "Lighthouse Reports - Consolidated",
                generated |-> "",
                summary |-> flatSummary(sorted),
                rows |-> [i \in 1..Len(sorted) |-> flatRow(sorted[i])],
                footer |-> "Generated on " \o toLocaleString(ms)
                             \o " | Total Reports: " \o ToString(Len(sorted))] >>,
   divisors |-> {Len(sorted)}]

\* The part of generateConsolidatedReport behind the reads: the sort and the
\* template (the empty check there is on the file names, before the reads).
renderFlat(reports, ms) == flatDocument(sortReports(reports), ms)

(***************************************************************************)
(* The scan.  fs.readdir returns the entries of a directory in an order    *)
(* the code does not control: ls maps each directory to the sequence it    *)
(* returns.  A scan yields the reports it pushed and whether it threw.     *)
(***************************************************************************)
\* All the sequences that enumerate the set S once.
RECURSIVE Orders(_)
Orders(S) ==
  IF S = {} THEN {<<>>}
  ELSE UNION {{<<x>> \o rest : rest \in Orders(S \ {x})} : x \in S}

\* All the ways fs.readdir can answer for the directories of D.
RECURSIVE Listings(_, _, _)
Listings(d, f, D) ==
  IF D = {} THEN {<<>>}
  ELSE LET dir == CHOOSE x \in D : TRUE
       IN  {(dir :> o) @@ l : o \in Orders(Entries(d, f, dir)),
                              l \in Listings(d, f, D \ {dir})}

\* for (const file of jsonFiles) { reports.push(await fs.readJSON(...)) }
RECURSIVE readJsonFiles(_, _, _, _)
readJsonFiles(d, f, jsonFiles, acc) ==
  IF acc.threw \/ jsonFiles = <<>> THEN acc
  ELSE LET p == Head(jsonFiles)
       IN  IF p \in DOMAIN f /\ IsJSON(f[p])
           THEN readJsonFiles(d, f, Tail(jsonFiles),
                  [threw |-> FALSE,
                   reports |-> Append(acc.reports, JSONparse(f[p])),
                   paths |-> Append(acc.paths, p)])
           ELSE [acc EXCEPT !.threw = TRUE]

\* files.filter(f => f.endsWith('.json'))
jsonFilesOf(entries) == SelectSeq(entries, LAMBDA p : endsWith(Last(p), ".json"))

\* for (const timeFolder of timeFolders) { ... }
RECURSIVE scanTimeFolders(_, _, _, _, _)
\* A loop without the isDirectory test: fs.readdir of a file throws ENOTDIR.
scanTimeFoldersWithoutStat(d, f, ls, timeFolders, acc) ==
  IF acc.threw \/ timeFolders = <<>> THEN acc
  ELSE IF ~isDirectory(d, Head(timeFolders))
  THEN [acc EXCEPT !.threw = TRUE]
  ELSE scanTimeFolders(d, f, ls, Tail(timeFolders),
                       readJsonFiles(d, f, jsonFilesOf(ls[Head(timeFolders)]), acc))

scanTimeFolders(d, f, ls, timeFolders, acc) ==
  IF acc.threw \/ timeFolders = <<>> THEN acc
  ELSE IF ~isDirectory(d, Head(timeFolders))
  THEN scanTimeFolders(d, f, ls, Tail(timeFolders), acc)
  ELSE scanTimeFolders(d, f, ls, Tail(timeFolders),
                       readJsonFiles(d, f, jsonFilesOf(ls[Head(timeFolders)]), acc))

\* for (const dateFolder of dateFolders) { ... }
RECURSIVE scanDateFolders(_, _, _, _, _)
scanDateFolders(d, f, ls, dateFolders, acc) ==
  IF acc.threw \/ dateFolders = <<>> THEN acc
  ELSE IF ~isDirectory(d, Head(dateFolders))
  THEN scanDateFolders(d, f, ls, Tail(dateFolders), acc)
  ELSE scanDateFolders(d, f, ls, Tail(dateFolders),
                       scanTimeFolders(d, f, ls, ls[Head(dateFolders)], acc))

NoReports == [threw |-> FALSE, reports |-> <<>>, paths |-> <<>>]

\* The directories the scan of reportsDir lists.
ScannedDirs(d, reportsDir) ==
  {p \in d : Len(p) - Len(reportsDir) \in 0..2
             /\ SubSeq(p, 1, Len(reportsDir)) = reportsDir}

\* The scan loops of generateConsolidatedReportWithDateTime.
scanAll(d, f, ls, reportsDir) == scanDateFolders(d, f, ls, ls[reportsDir], NoReports)

\* A generator that serves the consolidated report already on disk.
generatedFromWrittenReport(scanned, rendered) ==
  IF scanned.threw
  THEN [threw |-> TRUE, html |-> <<>>, divisors |-> {}, scanned |-> scanned]
  ELSE IF DefaultOutputPath \in DOMAIN files
  THEN [threw |-> FALSE, html |-> <<files[DefaultOutputPath].body>>,
        divisors |-> rendered.divisors, scanned |-> scanned]
  ELSE [threw |-> FALSE, html |-> rendered.html, divisors |-> rendered.divisors,
        scanned |-> scanned]

\* What a generator returns after its reads: it threw where a read threw,
\* and returns the rendered document otherwise.
generated(scanned, rendered) ==
  IF scanned.threw
  THEN [threw |-> TRUE, html |-> <<>>, divisors |-> {}, scanned |-> scanned]
  ELSE [threw |-> FALSE, html |-> rendered.html, divisors |-> rendered.divisors,
        scanned |-> scanned]

\* The scan of generateConsolidatedReportWithDateTime and what follows it.
generateFromScan(scanned, dateTime) ==
  generated(scanned, renderDateTime(scanned.reports, dateTime))

\* A generator without the fs.pathExists guard: fs.readdir throws ENOENT.
generateWithoutPathCheck(d, f, ls, reportsDir, ms) ==
  IF ~pathExists(d, f, reportsDir)
  THEN [threw |-> TRUE, html |-> <<>>, divisors |-> {}, scanned |-> NoReports]
  ELSE generateFromScan(scanAll(d, f, ls, reportsDir), getDateTimePath(ms).dateTime)

\* generateConsolidatedReportWithDateTime(reportDir), called at instant ms.
generateConsolidatedReportWithDateTime(d, f, ls, reportsDir, ms) ==
  IF ~pathExists(d, f, reportsDir)
  THEN [threw |-> FALSE, html |-> <<>>, divisors |-> {}, scanned |-> NoReports]
  ELSE generateFromScan(scanAll(d, f, ls, reportsDir), getDateTimePath(ms).dateTime)

\* The reads of generateConsolidatedReport and what follows them.
generateFromReads(scanned, ms) == generated(scanned, renderFlat(scanned.reports, ms))

\* A flat generator without the jsonFiles.length === 0 check.
generateFlatWithoutEmptyCheck(d, f, ls, reportsDir, ms) ==
  IF ~pathExists(d, f, reportsDir)
  THEN [threw |-> FALSE, html |-> <<>>, divisors |-> {}, scanned |-> NoReports]
  ELSE generateFromReads(readJsonFiles(d, f, jsonFilesOf(ls[reportsDir]), NoReports), ms)

\* generateConsolidatedReport(reportDir), called at instant ms.
generateConsolidatedReport(d, f, ls, reportsDir, ms) ==
  IF ~pathExists(d, f, reportsDir) \/ Len(jsonFilesOf(ls[reportsDir])) = 0
  THEN [threw |-> FALSE, html |-> <<>>, divisors |-> {}, scanned |-> NoReports]
  ELSE generateFromReads(readJsonFiles(d, f, jsonFilesOf(ls[reportsDir]), NoReports), ms)

(***************************************************************************)
(* The operations.                                                         *)
(***************************************************************************)
NoResult ==
  [op |-> "none", status |-> "ok", path |-> <<>>, html |-> <<>>,
   scanned |-> NoReports, divisors |-> {}]

NoClasses == [single |-> "", flat |-> "", dateTime |-> ""]

\* No worker: the operations are called one after the other.
NoWorkers == <<>>

NoProbe == [score |-> 0, classes |-> NoClasses]

Init ==
  /\ now = ClockStart
  /\ dirs = {<<>>}
  /\ files = <<>>
  /\ result = NoResult
  /\ written = <<>>
  /\ used = 0
  /\ probe = NoProbe
  /\ workers = NoWorkers
  /\ readOnly = {}

\* Time passes.
Tick ==
  /\ now + TickMs \in Instants
  /\ now' = now + TickMs
  /\ UNCHANGED <<dirs, files, result, written, used, probe, workers, readOnly>>

\* The reports the tests of a suite can hold at instant ms.
ReportsAt(ms, suites) ==
  {generateReport(a.url, a.lhr, ms - a.age * TickMs) :
     a \in {x \in AuditResults : x.suite \in suites}}

\* A write that leaves a document that is already there as it is.
writeJSONKeepingFirst(f, p, report) ==
  IF p \in DOMAIN f THEN f ELSE writeFile(f, p, JSONstringify(report))

\* fs.writeJSON(filepath, report, { spaces: 2 }): the file is created or
\* replaced.
writeJSON(f, p, report) == writeFile(f, p, JSONstringify(report))

\* The file names the callers pass: none, or a name of their own.
FilenameArgs == {Undefined, <<"summary.txt">>}

\* A save that catches what fs.ensureDir or fs.writeJSON throws and returns
\* '' in its place.
writeReportIntoSwallowing(reportDir, report, filename) ==
  LET finalFilename == IF filename # Undefined THEN filename[1]
                       ELSE "lighthouse-" \o ToString(now) \o ".json"
      filepath == join(reportDir, finalFilename)
      madeDirs == ensureDir(dirs, files, reportDir)
  IN  /\ used < MaxWrites
      /\ used' = used + 1
      /\ IF \/ ensureDirFails(dirs, files, reportDir)
            \/ writeFileFails(madeDirs, files, filepath)
         THEN /\ result' = [NoResult EXCEPT !.op = "saveReportWithDateTime"]
              /\ UNCHANGED <<dirs, files, written>>
         ELSE /\ dirs' = madeDirs
              /\ files' = writeJSON(files, filepath, report)
              /\ written' = writeFile(written, filepath,
                                      [report |-> report, filename |-> filename,
                                       at |-> now])
              /\ result' = [NoResult EXCEPT !.op = "saveReportWithDateTime",
                                            !.path = filepath]
      /\ UNCHANGED <<now, probe, workers, readOnly>>

\* The body of saveReportWithDateTime behind getDateTimePath: ensureDir,
\* the choice of the file name, writeJSON.
writeReportInto(reportDir, report, filename) ==
  LET finalFilename == IF filename # Undefined THEN filename[1]
                       ELSE "lighthouse-" \o ToString(now) \o ".json"
      filepath == join(reportDir, finalFilename)
      madeDirs == ensureDir(dirs, files, reportDir)
  IN  /\ used < MaxWrites
      /\ used' = used + 1
      /\ IF ensureDirFails(dirs, files, reportDir)
         THEN /\ result' = [NoResult EXCEPT !.op = "saveReportWithDateTime",
                                            !.status = "threw"]
              /\ UNCHANGED <<dirs, files, written>>
         ELSE IF writeFileFails(madeDirs, files, filepath)
         THEN /\ dirs' = madeDirs
              /\ result' = [NoResult EXCEPT !.op = "saveReportWithDateTime",
                                            !.status = "threw"]
              /\ UNCHANGED <<files, written>>
         ELSE /\ dirs' = madeDirs
              /\ files' = writeJSON(files, filepath, report)
              /\ written' = writeFile(written, filepath,
                                      [report |-> report, filename |-> filename,
                                       at |-> now])
              /\ result' = [NoResult EXCEPT !.op = "saveReportWithDateTime",
                                            !.path = filepath]
      /\ UNCHANGED <<now, probe, workers, readOnly>>

\* saveReportWithDateTime(report, filename)
saveReportWithDateTime(report, filename) ==
  writeReportInto(ReportsRoot \o getDateTimePath(now).folder, report, filename)

SaveReportWithDateTime ==
  \E report \in ReportsAt(now, {"dateTime"}), filename \in FilenameArgs :
    saveReportWithDateTime(report, filename)

\* saveConsolidatedReportWithDateTime(outputPath)
saveConsolidatedReportWithDateTime(ls, outputPath) ==
  \E g \in {generateConsolidatedReportWithDateTime(dirs, files, ls, ReportsRoot, now)} :
  LET reportPath == IF outputPath # Undefined THEN outputPath[1] ELSE DefaultOutputPath
      reportDir == dirname(reportPath)
      madeDirs == ensureDir(dirs, files, reportDir)
      r == [op |-> "saveConsolidatedReportWithDateTime", status |-> "ok",
            path |-> <<>>, html |-> g.html, scanned |-> g.scanned,
            divisors |-> g.divisors]
  IN  /\ IF g.threw
         THEN /\ result' = [r EXCEPT !.status = "threw"]
              /\ UNCHANGED <<dirs, files>>
         ELSE IF g.html = <<>>
         THEN /\ result' = r
              /\ UNCHANGED <<dirs, files>>
         ELSE IF ensureDirFails(dirs, files, reportDir)
         THEN /\ result' = [r EXCEPT !.status = "threw"]
              /\ UNCHANGED <<dirs, files>>
         ELSE IF writeFileFails(madeDirs, files, reportPath)
         THEN /\ result' = [r EXCEPT !.status = "threw"]
              /\ dirs' = madeDirs
              /\ UNCHANGED files
         ELSE /\ result' = [r EXCEPT !.path = reportPath]
              /\ dirs' = madeDirs
              /\ files' = writeFile(files, reportPath,
                                    [kind |-> "html", body |-> g.html[1]])
      /\ UNCHANGED <<now, written, used, probe, workers, readOnly>>

SaveConsolidatedReportWithDateTime ==
  \E ls \in Listings(dirs, files, ScannedDirs(dirs, ReportsRoot)) :
    saveConsolidatedReportWithDateTime(ls, Undefined)

\* saveReport(report, filename): the flat store of the older suites.
saveReport(report, filename) ==
  LET reportDir == ReportsRoot
      filepath == join(reportDir, filename)
      madeDirs == ensureDir(dirs, files, reportDir)
  IN  /\ used < MaxWrites
      /\ used' = used + 1
      /\ IF ensureDirFails(dirs, files, reportDir)
         THEN /\ result' = [NoResult EXCEPT !.op = "saveReport", !.status = "threw"]
              /\ UNCHANGED <<dirs, files>>
         ELSE IF writeFileFails(madeDirs, files, filepath)
         THEN /\ dirs' = madeDirs
              /\ result' = [NoResult EXCEPT !.op = "saveReport", !.status = "threw"]
              /\ UNCHANGED files
         ELSE /\ dirs' = madeDirs
              /\ files' = writeFile(files, filepath, JSONstringify(report))
              /\ result' = [NoResult EXCEPT !.op = "saveReport", !.path = filepath]
      /\ UNCHANGED <<now, written, probe, workers, readOnly>>

SaveReport ==
  \E report \in ReportsAt(now, {"flat"}) :
    saveReport(report, "lighthouse-" \o ToString(now) \o ".json")

\* saveConsolidatedReportAsHTML(outputPath)
saveConsolidatedReportAsHTML(ls, outputPath) ==
  \E g \in {generateConsolidatedReport(dirs, files, ls, ReportsRoot, now)} :
  LET reportPath == IF outputPath # Undefined THEN outputPath[1] ELSE FlatOutputPath
      reportDir == dirname(reportPath)
      madeDirs == ensureDir(dirs, files, reportDir)
      r == [op |-> "saveConsolidatedReportAsHTML", status |-> "ok",
            path |-> <<>>, html |-> g.html, scanned |-> g.scanned,
            divisors |-> g.divisors]
  IN  /\ IF g.threw
         THEN /\ result' = [r EXCEPT !.status = "threw"]
              /\ UNCHANGED <<dirs, files>>
         ELSE IF g.html = <<>>
         THEN /\ result' = r
              /\ UNCHANGED <<dirs, files>>
         ELSE IF ensureDirFails(dirs, files, reportDir)
         THEN /\ result' = [r EXCEPT !.status = "threw"]
              /\ UNCHANGED <<dirs, files>>
         ELSE IF writeFileFails(madeDirs, files, reportPath)
         THEN /\ result' = [r EXCEPT !.status = "threw"]
              /\ dirs' = madeDirs
              /\ UNCHANGED files
         ELSE /\ result' = [r EXCEPT !.path = reportPath]
              /\ dirs' = madeDirs
              /\ files' = writeFile(files, reportPath,
                                    [kind |-> "html", body |-> g.html[1]])
      /\ UNCHANGED <<now, written, used, probe, workers, readOnly>>

SaveConsolidatedReportAsHTML ==
  \E ls \in Listings(dirs, files, {ReportsRoot} \cap dirs) :
    saveConsolidatedReportAsHTML(ls, Undefined)

\* Somebody puts a file of their own into the reports directory, a day
\* bucket or a time bucket (notes, an editor backup, an OS thumbnail file).
PlaceForeignFile ==
  \E dir \in ScannedDirs(dirs, ReportsRoot) :
    LET p == join(dir, "notes.txt")
    IN  /\ used < MaxWrites
        /\ ~pathExists(dirs, files, p)
        /\ files' = writeFile(files, p, [kind |-> "text", body |-> [text |-> "notes"]])
        /\ used' = used + 1
        /\ result' = [NoResult EXCEPT !.op = "foreign", !.path = p]
        /\ UNCHANGED <<now, dirs, written, probe, workers, readOnly>>

Next ==
  \/ Tick
  \/ SaveReportWithDateTime
  \/ SaveReport
  \/ SaveConsolidatedReportWithDateTime
  \/ SaveConsolidatedReportAsHTML
  \/ PlaceForeignFile

Spec == Init /\ [][Next]_vars

(***************************************************************************)
(* The aggregator and renderer alone, applied to every sequence of at most *)
(* MaxLoaded reports in every order.                                       *)
(***************************************************************************)
ReportPool ==
  ReportsAt(ClockStart, {"dateTime", "flat"})
    \cup ReportsAt(ClockStart + TickMs, {"dateTime", "flat"})

LoadedSeqs == UNION {[1..n -> ReportPool] : n \in 0..MaxLoaded}

InitAggregate ==
  /\ now = ClockStart
  /\ dirs = {<<>>}
  /\ files = <<>>
  /\ written = <<>>
  /\ used = 0
  /\ probe = NoProbe
  /\ workers = NoWorkers
  /\ readOnly = {}
  /\ \E reports \in LoadedSeqs :
       result = [NoResult EXCEPT !.op = "loaded", !.scanned.reports = reports]

RenderDateTime ==
  /\ result.op = "loaded"
  /\ \E g \in {renderDateTime(result.scanned.reports, getDateTimePath(now).dateTime)} :
       result' = [result EXCEPT !.op = "renderDateTime", !.html = g.html,
                                !.divisors = g.divisors]
  /\ UNCHANGED <<now, dirs, files, written, used, probe, workers, readOnly>>

RenderFlat ==
  /\ result.op = "loaded"
  /\ Len(result.scanned.reports) > 0
  /\ \E g \in {renderFlat(result.scanned.reports, now)} :
       result' = [result EXCEPT !.op = "renderFlat", !.html = g.html,
                                !.divisors = g.divisors]
  /\ UNCHANGED <<now, dirs, files, written, used, probe, workers, readOnly>>

NextAggregate == RenderDateTime \/ RenderFlat

SpecAggregate == InitAggregate /\ [][NextAggregate]_vars

(***************************************************************************)
(* The three classifiers alone, applied to every score.                    *)
(***************************************************************************)
MaxScore == 100

InitClassify ==
  /\ now = ClockStart
  /\ dirs = {<<>>}
  /\ files = <<>>
  /\ result = NoResult
  /\ written = <<>>
  /\ used = 0
  /\ probe \in {[score |-> s, classes |-> NoClasses] : s \in 0..MaxScore}
  /\ workers = NoWorkers
  /\ readOnly = {}

Classify ==
  /\ probe.classes = NoClasses
  /\ probe' = [probe EXCEPT !.classes =
                 [single |-> getScoreClass(probe.score),
                  flat |-> flatScoreClass(probe.score),
                  dateTime |-> dateTimeScoreClass(probe.score)]]
  /\ UNCHANGED <<now, dirs, files, result, written, used, workers, readOnly>>

NextClassify == Classify

SpecClassify == InitClassify /\ [][NextClassify]_vars

(***************************************************************************)
(* Properties.                                                             *)
(***************************************************************************)
Renders == {"saveConsolidatedReportWithDateTime", "saveConsolidatedReportAsHTML"}

DateTimeRendered == result.op = "saveConsolidatedReportWithDateTime"

Loaded == result.scanned.reports

\* a and b agree on every field of a report.
SameReport(a, b) ==
  /\ \A k \in {"url", "timestamp", "rawAudits"} : SameProp(a, b, k)
  /\ ~IsUndefined(a, "scores") /\ ~IsUndefined(b, "scores")
  /\ \A k \in ScoreFields : SameProp(a.scores, b.scores, k)
  /\ ~IsUndefined(a, "metrics") /\ ~IsUndefined(b, "metrics")
  /\ \A k \in MetricFields : SameProp(a.metrics, b.metrics, k)

\* The store holds one report, saved under the default name, and nothing else.
OneDefaultSave ==
  /\ used = 1
  /\ \E p \in DOMAIN written : written[p].filename = Undefined

\* C1: from an empty store, saveReportWithDateTime(R) followed by the scan of
\* generateConsolidatedReportWithDateTime loads exactly one report, and it
\* equals R in url, timestamp, scores, metrics and rawAudits.
C1_RoundTrip ==
  (DateTimeRendered /\ OneDefaultSave) =>
    /\ result.status = "ok"
    /\ Len(Loaded) = 1
    /\ \A p \in DOMAIN written : SameReport(Loaded[1], written[p].report)

\* A report whose pwa score is undefined was saved and scanned back.
C1_Witness ==
  /\ DateTimeRendered /\ OneDefaultSave
  /\ Len(Loaded) = 1
  /\ \E p \in DOMAIN written :
       /\ IsUndefined(written[p].report.scores, "pwa")
       /\ "pwa" \in DOMAIN written[p].report.scores
       /\ "pwa" \notin DOMAIN Loaded[1].scores

\* The category whose mean a summary card shows.
CardCategory(label) ==
  CASE label = "Avg Performance" -> "performance"
    [] label = "Avg Accessibility" -> "accessibility"
    [] label = "Avg Best Practices" -> "bestPractices"
    [] label = "Avg SEO" -> "seo"

AvgLabels == {"Avg Performance", "Avg Accessibility", "Avg Best Practices", "Avg SEO"}

\* The sum of a category's score over the reports.
RECURSIVE TotalScore(_, _)
TotalScore(reports, category) ==
  IF reports = <<>> THEN 0
  ELSE Head(reports).scores[category] + TotalScore(Tail(reports), category)

\* text is the decimal numeral of round-half-up(total / n):
\* m - 1/2 <= total / n < m + 1/2.
IsRoundedMean(text, total, n) ==
  /\ IsNumeral(text)
  /\ 2 * n * ParseInt(text) <= 2 * total + n
  /\ 2 * total + n < 2 * n * (ParseInt(text) + 1)

Summary == result.html[1].summary

Card(label) == Summary[CHOOSE i \in 1..Len(Summary) : Summary[i].label = label]

\* C2: for N >= 1 loaded reports the summary states the count N, and each
\* category mean it shows is round-half-up(sum of the category's scores / N).
C2_SummaryMeans ==
  (result.op \in {"renderDateTime", "renderFlat"} /\ Len(Loaded) >= 1) =>
    /\ result.html # <<>>
    /\ \E i \in 1..Len(Summary) :
         Summary[i] = [label |-> "Total Reports", value |-> ToString(Len(Loaded))]
    /\ \A i \in 1..Len(Summary) :
         Summary[i].label # "Total Reports" =>
           /\ Summary[i].label \in AvgLabels
           /\ IsRoundedMean(Summary[i].value,
                            TotalScore(Loaded, CardCategory(Summary[i].label)),
                            Len(Loaded))

\* Three reports with performance 80, 90 and 100: count 3, mean 90; their
\* accessibility scores 49, 100, 98 have the mean 82.33, shown as 82.
C2_Witness ==
  /\ result.op = "renderDateTime"
  /\ Len(Loaded) = 3
  /\ {Loaded[i].scores.performance : i \in 1..3} = {80, 90, 100}
  /\ Card("Total Reports").value = "3"
  /\ Card("Avg Performance").value = "90"
  /\ Card("Avg Accessibility").value = "82"

SummaryLabels == {Summary[i].label : i \in 1..Len(Summary)}

\* C3 as stated: the summary of a consolidated report holds a mean for each
\* of the four categories performance, accessibility, best-practices and SEO.
C3_FourMeans ==
  (result.op \in Renders /\ result.html # <<>>) => AvgLabels \subseteq SummaryLabels

\* C3 as amended: the summary of both consolidated reports holds the report
\* count and the means of performance, accessibility and SEO, one card each,
\* and no mean of best-practices.
C3_ThreeMeans ==
  (result.op \in Renders /\ result.html # <<>>) =>
    /\ Len(Summary) = 4
    /\ SummaryLabels =
         {"Total Reports", "Avg Performance", "Avg Accessibility", "Avg SEO"}

\* A date/time consolidated report of two reports was rendered.
C3_Witness ==
  /\ DateTimeRendered
  /\ result.html # <<>>
  /\ Len(Loaded) = 2
  /\ "Avg SEO" \in SummaryLabels

\* C4: a consolidated report asked for while the reports directory does not
\* exist yields no report and no error, and creates and writes nothing.
C4_MissingRoot ==
  (result.op \in Renders /\ ~pathExists(dirs, files, ReportsRoot)) =>
    /\ result.status = "ok"
    /\ result.html = <<>>
    /\ Len(Loaded) = 0
    /\ result.path = <<>>
    /\ dirs = {<<>>}
    /\ DOMAIN files = {}

\* The date/time report was asked for before any report was saved.
C4_Witness ==
  /\ DateTimeRendered
  /\ ~pathExists(dirs, files, ReportsRoot)
  /\ result.status = "ok"
  /\ result.html = <<>>

\* C5 as stated: rendering with zero loaded reports succeeds and produces a
\* document that states a report count of zero.
C5_EmptyDocument ==
  (DateTimeRendered /\ result.status = "ok" /\ Len(Loaded) = 0) =>
    /\ result.html # <<>>
    /\ Card("Total Reports").value = "0"

\* C5 as amended: with zero loaded reports the generation does not throw and
\* returns the empty string; saveConsolidatedReportWithDateTime then returns
\* '' and writes no document.
C5_EmptyString ==
  (DateTimeRendered /\ Len(Loaded) = 0) =>
    /\ result.status = "ok"
    /\ result.html = <<>>
    /\ result.path = <<>>
    /\ DefaultOutputPath \notin DOMAIN files

\* The reports directory exists, holds a file that is no report, and the
\* date/time report was asked for.
C5_Witness ==
  /\ DateTimeRendered
  /\ pathExists(dirs, files, ReportsRoot)
  /\ DOMAIN written # {}
  /\ Len(Loaded) = 0
  /\ result.path = <<>>

\* C6: no average is ever divided by reports.length = 0: with zero reports
\* no mean is computed, and a rendered mean is never NaN or Infinity.
C6_NoZeroDivisor ==
  /\ 0 \notin result.divisors
  /\ (result.op \in Renders /\ Len(Loaded) = 0) =>
       (result.html = <<>> /\ result.divisors = {})
  /\ result.html # <<>> =>
       /\ result.divisors = {Len(Loaded)}
       /\ \A i \in 1..Len(Summary) : Summary[i].value \notin {"NaN", "Infinity"}

\* The flat report was asked for of a reports directory without flat reports.
C6_Witness ==
  /\ result.op = "saveConsolidatedReportAsHTML"
  /\ pathExists(dirs, files, ReportsRoot)
  /\ Len(Loaded) = 0
  /\ result.divisors = {}
  /\ result.html = <<>>

Rows == result.html[1].rows

\* The permutations of 1..n.
IndexOrders(n) == {f \in [1..n -> 1..n] : \A i, j \in 1..n : i # j => f[i] # f[j]}

\* C7: the detail rows are the loaded reports, one row each, by creation
\* timestamp descending, whatever order the directories were enumerated in.
C7_RowsNewestFirst ==
  (DateTimeRendered /\ result.html # <<>>) =>
    /\ Len(Rows) = Len(Loaded)
    /\ \E f \in IndexOrders(Len(Loaded)) :
         /\ \A i \in 1..Len(Rows) : Rows[i] = dateTimeRow(Loaded[f[i]])
         /\ \A i \in 1..(Len(Rows) - 1) :
              DateParse(Loaded[f[i]].timestamp) >= DateParse(Loaded[f[i + 1]].timestamp)

\* Two reports of one day bucket and two time buckets were enumerated oldest
\* first and are shown as two rows, the newer one first.
C7_Witness ==
  /\ DateTimeRendered /\ result.html # <<>>
  /\ Len(Loaded) = 2 /\ Len(Rows) = 2
  /\ result.scanned.paths[1][3] = result.scanned.paths[2][3]
  /\ result.scanned.paths[1][4] # result.scanned.paths[2][4]
  /\ DateParse(Loaded[1].timestamp) < DateParse(Loaded[2].timestamp)
  /\ Rows[1] = dateTimeRow(Loaded[2])
  /\ Rows[2] = dateTimeRow(Loaded[1])
  /\ Rows[1] # Rows[2]

\* The tier a CSS class of one of the three renderers stands for.
TierOf(class) ==
  CASE class \in {"score-good", "good"} -> "good"
    [] class \in {"score-average", "avg"} -> "average"
    [] class \in {"score-poor", "poor"} -> "poor"
    [] OTHER -> "none"

\* C8: every score in 0..100 falls into one tier, good from 90, average
\* from 50 to 89, poor below 50, and the single-report page, the flat and
\* the date/time consolidated report agree on it.
C8_Tiers ==
  probe.classes # NoClasses =>
    \A path \in {"single", "flat", "dateTime"} :
      LET tier == TierOf(probe.classes[path])
      IN  /\ tier \in {"good", "average", "poor"}
          /\ tier = "good" <=> probe.score >= 90
          /\ tier = "average" <=> (50 <= probe.score /\ probe.score <= 89)
          /\ tier = "poor" <=> probe.score < 50

\* The score 90, the lowest of the upper tier, was classified.
C8_Witness ==
  /\ probe.score = 90
  /\ probe.classes = [single |-> "score-good", flat |-> "good", dateTime |-> "good"]

\* The instant a day key and a time key denote, read as zero-padded local
\* time on a 24-hour clock; -1 when they are not of that form.
BucketInstant(dayKey, timeKey) ==
  IF /\ Len(dayKey) = 10 /\ Len(timeKey) = 8
     /\ SubSeq(dayKey, 5, 5) = "-" /\ SubSeq(dayKey, 8, 8) = "-"
     /\ SubSeq(timeKey, 3, 3) = "-" /\ SubSeq(timeKey, 6, 6) = "-"
     /\ IsNumeral(SubSeq(dayKey, 1, 4)) /\ IsNumeral(SubSeq(dayKey, 6, 7))
     /\ IsNumeral(SubSeq(dayKey, 9, 10)) /\ IsNumeral(SubSeq(timeKey, 1, 2))
     /\ IsNumeral(SubSeq(timeKey, 4, 5)) /\ IsNumeral(SubSeq(timeKey, 7, 8))
     /\ ParseInt(SubSeq(timeKey, 1, 2)) < 24
     /\ ParseInt(SubSeq(timeKey, 4, 5)) < 60
     /\ ParseInt(SubSeq(timeKey, 7, 8)) < 60
  THEN (DaysFromCivil(ParseInt(SubSeq(dayKey, 1, 4)), ParseInt(SubSeq(dayKey, 6, 7)),
                      ParseInt(SubSeq(dayKey, 9, 10))) - BaseDay) * MsPerDay
         + ParseInt(SubSeq(timeKey, 1, 2)) * MsPerHour
         + ParseInt(SubSeq(timeKey, 4, 5)) * MsPerMinute
         + ParseInt(SubSeq(timeKey, 7, 8)) * MsPerSecond
         - TzOffsetMinutes * MsPerMinute
  ELSE -1

UnderRoot(p) ==
  Len(p) > Len(ReportsRoot) /\ SubSeq(p, 1, Len(ReportsRoot)) = ReportsRoot

\* The files two directories below the reports directory.
FilesInTimeBuckets ==
  {p \in DOMAIN files : /\ UnderRoot(p) /\ Len(p) = Len(ReportsRoot) + 3
                        /\ dirname(p) \in dirs /\ dirname(dirname(p)) \in dirs}

ScannedPaths == {result.scanned.paths[i] : i \in 1..Len(result.scanned.paths)}

\* Every document of the store lies at <root>/<YYYY-MM-DD>/<HH-MM-SS>/<file>,
\* the keys being the second of the save in zero-padded local 24-hour time.
StoreLayout ==
  \A p \in DOMAIN written :
    /\ p \in DOMAIN files
    /\ UnderRoot(p) /\ Len(p) = Len(ReportsRoot) + 3
    /\ BucketInstant(p[Len(p) - 2], p[Len(p) - 1])
         = written[p].at - (written[p].at % MsPerSecond)

\* C9: the store writes at <root>/<YYYY-MM-DD>/<HH-MM-SS>/<file>, the keys
\* zero-padded local 24-hour time, and the scanner loads exactly the
\* documents the store wrote there, so that it finds every one of them.
C9_ScannerFindsAll ==
  /\ StoreLayout
  /\ (DateTimeRendered /\ result.status = "ok") => ScannedPaths = DOMAIN written

\* C9, the part that holds: the layout is as stated, and the scanner loads
\* exactly the documents of the store whose file name ends in .json, the
\* default name lighthouse-<ms>.json among them.
C9_ScannerFindsJson ==
  /\ StoreLayout
  /\ (DateTimeRendered /\ result.status = "ok") =>
       /\ ScannedPaths = {p \in DOMAIN written : endsWith(Last(p), ".json")}
       /\ \A p \in DOMAIN written : written[p].filename = Undefined => p \in ScannedPaths

\* Two documents saved on either side of midnight, and so in two day
\* buckets, were both found by the scan.
C9_Witness ==
  /\ DateTimeRendered /\ result.status = "ok"
  /\ Cardinality(DOMAIN written) = 2
  /\ DOMAIN written = ScannedPaths
  /\ \E p, q \in DOMAIN written :
       /\ p[Len(p) - 2] = "2025-03-09" /\ p[Len(p) - 1] = "23-59-59"
       /\ q[Len(q) - 2] = "2025-03-10" /\ q[Len(q) - 1] = "00-00-00"

\* The entries a scan has to pass over: files directly in the reports
\* directory or in a day bucket, and files of a time bucket whose name does
\* not end in .json.
Skipped ==
  {p \in DOMAIN files :
     /\ UnderRoot(p)
     /\ \/ Len(p) \in {Len(ReportsRoot) + 1, Len(ReportsRoot) + 2}
        \/ (p \in FilesInTimeBuckets /\ ~endsWith(Last(p), ".json"))}

\* C10: files in the reports directory or in a day bucket, and files of a
\* time bucket whose name does not end in .json, raise no error and change
\* nothing about the reports loaded: every report document is loaded as it
\* was saved, and nothing else is.
C10_SkipsOthers ==
  DateTimeRendered =>
    /\ result.status = "ok"
    /\ ScannedPaths \cap Skipped = {}
    /\ {p \in DOMAIN written : endsWith(Last(p), ".json")} \subseteq ScannedPaths
    /\ Len(Loaded) = Cardinality(ScannedPaths)
    /\ \A i \in 1..Len(Loaded) :
         Loaded[i] = JSONparse(JSONstringify(written[result.scanned.paths[i]].report))

\* A day bucket holds a file beside its time bucket, and the scan loaded the
\* report of the time bucket.
C10_Witness ==
  /\ DateTimeRendered /\ result.status = "ok"
  /\ \E p \in Skipped : Len(p) = Len(ReportsRoot) + 2
  /\ Len(Loaded) = 1

(***************************************************************************)
(* Faults of the environment: a saved report edited by hand into text that *)
(* is no JSON.                                                             *)
(***************************************************************************)
CorruptContent == [kind |-> "corrupt", body |-> [text |-> "{ \"url\": "]]

\* Somebody edits one saved report document and leaves invalid JSON.
CorruptDocument ==
  \E p \in DOMAIN written :
    /\ p \in DOMAIN files
    /\ IsJSON(files[p])
    /\ \A q \in DOMAIN files : files[q] # CorruptContent
    /\ files' = writeFile(files, p, CorruptContent)
    /\ result' = [NoResult EXCEPT !.op = "corrupt", !.path = p]
    /\ UNCHANGED <<now, dirs, written, used, probe, workers, readOnly>>

NextFaults ==
  \/ Next
  \/ CorruptDocument

SpecFaults == Init /\ [][NextFaults]_vars

\* The report documents of the time buckets that hold valid JSON.
ValidDocuments ==
  {p \in FilesInTimeBuckets : endsWith(Last(p), ".json") /\ IsJSON(files[p])}

\* C11: a report document with invalid serialization does not keep the scan
\* from completing, and the scan returns every valid report of the store.
C11_ScanSurvivesCorruption ==
  DateTimeRendered =>
    /\ result.status = "ok"
    /\ ValidDocuments \subseteq ScannedPaths

\* The scan threw on a corrupt document of one time bucket while a valid
\* report lay in another time bucket, and no consolidated report came out.
C11_SiblingLost ==
  /\ DateTimeRendered
  /\ result.status = "threw"
  /\ result.html = <<>>
  /\ \E p \in ValidDocuments, q \in FilesInTimeBuckets :
       /\ files[q] = CorruptContent
       /\ dirname(p) # dirname(q)

(***************************************************************************)
(* The harness: the date/time test, which audits, saves and then renders   *)
(* the consolidated report, and the report script.  One run is one step;   *)
(* the file system between its calls is passed on as a value.              *)
(***************************************************************************)
Lhr4 ==
  [categories |-> [performance |-> [score |-> 35], accessibility |-> [score |-> 70],
                   bestPractices |-> [score |-> 60], seo |-> [score |-> 0]],
   audits |-> [fcp |-> [numericValue |-> 4000000], lcp |-> [numericValue |-> 6100000],
               cls |-> [numericValue |-> 250]]]

\* The audits the date/time test can come back with at instant ms.
TestReportsAt(ms) ==
  {generateReport("https://staging.example.com/dashboard", lhr, ms) : lhr \in {Lhr1, Lhr4}}

\* expect(report.scores.<category>).toBeGreaterThan(0), four times
expectScores(report) ==
  /\ report.scores.performance > 0
  /\ report.scores.accessibility > 0
  /\ report.scores.bestPractices > 0
  /\ report.scores.seo > 0

\* `${year}-${month}-${day}_${hours}-${minutes}-${seconds}`
timestampOf(f) == dateFolderOf(f) \o "_" \o timeFolderOf(f)

\* path.join(process.cwd(), 'lighthouse-reports')
TestOutputDir == <<"lighthouse-reports">>
\* path.join(process.cwd(), 'playwright-report', 'lighthouse_reports')
ScriptOutputDir == <<"playwright-report", "lighthouse_reports">>

\* An output path of one name for every run.
outputPathInLatest(outputDir, ms) == join(outputDir, "lighthouse-report-latest.html")

outputPathIn(outputDir, ms) ==
  join(outputDir, "lighthouse-report-" \o timestampOf(LocalFields(ms)) \o ".html")

\* fs.ensureDir(dir) followed by a write of content to path: the file system
\* left behind, whether a call threw, and the path written.
ensureDirAndWrite(d, f, dir, path, content) ==
  IF ensureDirFails(d, f, dir)
  THEN [dirs |-> d, files |-> f, threw |-> TRUE, path |-> <<>>]
  ELSE IF writeFileFails(ensureDir(d, f, dir), f, path)
  THEN [dirs |-> ensureDir(d, f, dir), files |-> f, threw |-> TRUE, path |-> <<>>]
  ELSE [dirs |-> ensureDir(d, f, dir), files |-> writeFile(f, path, content),
        threw |-> FALSE, path |-> path]

\* saveReportWithDateTime(report, filename) on the file system (d, f) at ms.
savedReportWithDateTime(d, f, report, filename, ms) ==
  ensureDirAndWrite(d, f, ReportsRoot \o getDateTimePath(ms).folder,
                    join(ReportsRoot \o getDateTimePath(ms).folder, filename),
                    JSONstringify(report))

\* A save that treats the missing document as an error instead of
\* returning ''.
savedConsolidatedThrowingOnEmpty(d, f, g, outputPath) ==
  IF g.threw \/ g.html = <<>>
  THEN [dirs |-> d, files |-> f, threw |-> TRUE, path |-> <<>>]
  ELSE ensureDirAndWrite(d, f, dirname(outputPath), outputPath,
                         [kind |-> "html", body |-> g.html[1]])

\* A save that writes the document over the first report it has read.
savedConsolidatedIntoStore(d, f, g, outputPath) ==
  IF g.threw THEN [dirs |-> d, files |-> f, threw |-> TRUE, path |-> <<>>]
  ELSE IF g.html = <<>> THEN [dirs |-> d, files |-> f, threw |-> FALSE, path |-> <<>>]
  ELSE ensureDirAndWrite(d, f, dirname(g.scanned.paths[1]), g.scanned.paths[1],
                         [kind |-> "html", body |-> g.html[1]])

\* saveConsolidatedReportWithDateTime(outputPath) behind the generator: ''
\* without a write when there is no document, the write otherwise, and the
\* error rethrown when the generator or the write threw.
savedConsolidated(d, f, g, outputPath) ==
  IF g.threw THEN [dirs |-> d, files |-> f, threw |-> TRUE, path |-> <<>>]
  ELSE IF g.html = <<>> THEN [dirs |-> d, files |-> f, threw |-> FALSE, path |-> <<>>]
  ELSE ensureDirAndWrite(d, f, dirname(outputPath), outputPath,
                         [kind |-> "html", body |-> g.html[1]])

\* What a run leaves in result: the outcome of the run, the outcome of the
\* audit in it (the save and the expectations), whether it printed the
\* no-report warning, and what the generator returned.
runResult(op, status, audit, warned, path, g) ==
  [op |-> op, status |-> status, audit |-> audit, warned |-> warned, path |-> path,
   html |-> g.html, scanned |-> g.scanned, divisors |-> g.divisors]

NotGenerated == [threw |-> FALSE, html |-> <<>>, divisors |-> {}, scanned |-> NoReports]

\* The end of the test: the consolidated report. reportPath '' prints the
\* warning; an error is caught, logged and thrown again.
testRendered(saved, out, g) ==
  /\ dirs' = out.dirs
  /\ files' = out.files
  /\ result' = runResult("test", IF out.threw THEN "failed" ELSE "passed", "passed",
                         ~out.threw /\ out.path = <<>>, out.path, g)

\* The test behind the audit: save, expectations, fs.ensureDir(outputDir),
\* saveConsolidatedReportWithDateTime(outputPath); catch (error) { throw error }.
testSaved(report, filename, saved) ==
  IF saved.threw \/ ~expectScores(report)
  THEN /\ dirs' = saved.dirs
       /\ files' = saved.files
       /\ written' = IF saved.threw THEN written
                     ELSE writeFile(written, saved.path,
                                    [report |-> report, filename |-> <<filename>>,
                                     at |-> now])
       /\ result' = runResult("test", "failed", "failed", FALSE, <<>>, NotGenerated)
  ELSE /\ written' = writeFile(written, saved.path,
                               [report |-> report, filename |-> <<filename>>, at |-> now])
       /\ IF ensureDirFails(saved.dirs, saved.files, TestOutputDir)
          THEN /\ dirs' = saved.dirs
               /\ files' = saved.files
               /\ result' = runResult("test", "failed", "passed", FALSE, <<>>, NotGenerated)
          ELSE \E ls \in Listings(saved.dirs, saved.files,
                                  ScannedDirs(saved.dirs, ReportsRoot)) :
               \E g \in {generateConsolidatedReportWithDateTime(
                           saved.dirs, saved.files, ls, ReportsRoot, now)} :
               \E out \in {savedConsolidated(
                             ensureDir(saved.dirs, saved.files, TestOutputDir),
                             saved.files, g, outputPathIn(TestOutputDir, now))} :
                 testRendered(saved, out, g)

\* test 'run lighthouse audit and save report with date/time'
RunAuditTest ==
  /\ used < MaxWrites
  /\ used' = used + 1
  /\ \E report \in TestReportsAt(now) :
     \E filename \in {"lighthouse-" \o ToString(now) \o ".json"} :
     \E saved \in {savedReportWithDateTime(dirs, files, report, filename, now)} :
       testSaved(report, filename, saved)
  /\ UNCHANGED <<now, probe, workers, readOnly>>

\* The script behind saveConsolidatedReportWithDateTime: the path, or the
\* no-report warning for '', or process.exit(1) in the catch.
mainRendered(out, g) ==
  /\ dirs' = out.dirs
  /\ files' = out.files
  /\ result' = runResult("main", IF out.threw THEN "exit 1" ELSE "exit 0",
                         "", ~out.threw /\ out.path = <<>>, out.path, g)

\* scripts/generateLighthouseReport.ts: main()
Main ==
  /\ \E ls \in Listings(dirs, files, ScannedDirs(dirs, ReportsRoot)) :
     \E g \in {generateConsolidatedReportWithDateTime(dirs, files, ls, ReportsRoot, now)} :
     \E out \in {savedConsolidated(dirs, files, g, outputPathIn(ScriptOutputDir, now))} :
       mainRendered(out, g)
  /\ UNCHANGED <<now, written, used, probe, workers, readOnly>>

NextHarness ==
  \/ Tick
  \/ RunAuditTest
  \/ SaveReport
  \/ Main

SpecHarness == Init /\ [][NextHarness]_vars

NextHarnessFaults ==
  \/ NextHarness
  \/ CorruptDocument

SpecHarnessFaults == Init /\ [][NextHarnessFaults]_vars

\* C12: a failure of the consolidated report at the end of the test never
\* fails the test: the run ends with the outcome of its audit.
C12_AuditDecidesTest ==
  result.op = "test" => result.status = result.audit

\* A test whose audit was saved and met its expectations failed because the
\* scan for the consolidated report threw.
C12_TestFailedByReport ==
  /\ result.op = "test"
  /\ result.audit = "passed"
  /\ result.status = "failed"
  /\ result.scanned.threw
  /\ \E p \in DOMAIN written : written[p].at = now /\ IsJSON(files[p])

\* C13: the report script and the audit test can run in any order: the
\* script ends normally whatever was saved before it, with the no-report
\* warning and no file when nothing was, and with a consolidated report of
\* exactly the reports the tests saved so far otherwise.
C13_AnyOrder ==
  result.op = "main" =>
    /\ result.status = "exit 0"
    /\ DOMAIN written = {} =>
         /\ result.warned
         /\ result.html = <<>>
         /\ result.path = <<>>
    /\ DOMAIN written # {} =>
         /\ ~result.warned
         /\ result.html # <<>>
         /\ ScannedPaths = DOMAIN written
         /\ Len(result.html[1].rows) = Cardinality(DOMAIN written)
         /\ result.path \in DOMAIN files
         /\ files[result.path] = [kind |-> "html", body |-> result.html[1]]

\* The script ran after two tests and wrote a consolidated report of their
\* two reports.
C13_Witness ==
  /\ result.op = "main"
  /\ result.status = "exit 0"
  /\ Cardinality(DOMAIN written) = 2
  /\ result.html # <<>>
  /\ Len(result.html[1].rows) = 2
  /\ result.path \in DOMAIN files

\* Two renders of the same kind, one after the other, over the same loaded
\* reports, each with a document.
SameRenderAgain ==
  /\ result.op \in Renders
  /\ result'.op = result.op
  /\ result'.scanned.reports = result.scanned.reports
  /\ result.html # <<>>
  /\ result'.html # <<>>

\* The time a consolidated report says it was generated at: the Generated
\* line of the date/time report, the footer of the flat one.
RenderedAt(r) ==
  IF r.op = "saveConsolidatedReportWithDateTime" THEN r.html[1].generated
  ELSE r.html[1].footer

BucketedDocuments == {p \in FilesInTimeBuckets : endsWith(Last(p), ".json")}

\* C15: a date/time render that returned shows the number of report
\* documents the bucketed store holds at that moment, in the summary and in
\* the footer, and gives no document when the store holds none.
C15_CountIsOfTheStore ==
  (DateTimeRendered /\ result.status = "ok") =>
    /\ result.html = <<>> <=> BucketedDocuments = {}
    /\ result.html # <<>> =>
         /\ result.html[1].summary[1]
              = [label |-> "Total Reports",
                 value |-> ToString(Cardinality(BucketedDocuments))]
         /\ Len(result.html[1].rows) = Cardinality(BucketedDocuments)
         /\ ScannedPaths = BucketedDocuments

\* A render that shows two reports over a store of two documents, with a
\* consolidated report of that render on disk.
C15_Witness ==
  /\ DateTimeRendered
  /\ result.status = "ok"
  /\ Cardinality(BucketedDocuments) = 2
  /\ result.html # <<>>
  /\ result.html[1].summary[1].value = "2"
  /\ files[DefaultOutputPath] = [kind |-> "html", body |-> result.html[1]]

\* The reports saveReport left directly under the reports root.
FlatDocuments == {p \in DOMAIN files : dirname(p) = ReportsRoot /\ IsJSON(files[p])}

\* C16 as stated: the consolidated report of the report script holds every
\* report saved so far, those of saveReport and those of
\* saveReportWithDateTime.
C16_ScriptShowsAllSaved ==
  (result.op = "main" /\ result.status = "exit 0") =>
    /\ FlatDocuments \cup BucketedDocuments \subseteq ScannedPaths
    /\ (FlatDocuments \cup BucketedDocuments # {}) => result.html # <<>>

\* The script wrote a consolidated report of the one bucketed report while
\* a report of saveReport lies under the root, read by no one.
C16_FlatReportLeftOut ==
  /\ result.op = "main"
  /\ result.status = "exit 0"
  /\ result.html # <<>>
  /\ Len(result.html[1].rows) = 1
  /\ result.path \in DOMAIN files
  /\ \E p \in FlatDocuments :
       /\ p \notin ScannedPaths
       /\ \A i \in 1..Len(Loaded) : ~SameProp(Loaded[i], JSONparse(files[p]), "url")

(***************************************************************************)
(* The date/time test under the runner of the Playwright configuration:    *)
(* fullyParallel, and one worker under CI or parallelWorkers of them.       *)
(* Each worker runs a test in the steps its awaits cut it into.             *)
(***************************************************************************)
\* parseInt(process.env.PARALLEL_WORKERS || '4', 10), as far as it is checked
ParallelWorkers == 2

\* workers: process.env.CI ? 1 : parallelWorkers
WorkerCounts == {1, ParallelWorkers}

Idle == [pc |-> "idle", report |-> <<>>, path |-> <<>>]

\* The file fs.writeJSON has opened for writing and not yet closed: the
\* start of the text, which JSON.parse rejects.
PartialContent == [kind |-> "partial", body |-> [text |-> "{"]]

InitParallel ==
  /\ now = ClockStart
  /\ dirs = {<<>>}
  /\ files = <<>>
  /\ result = NoResult
  /\ written = <<>>
  /\ used = 0
  /\ probe = NoProbe
  /\ workers \in {[w \in 1..n |-> Idle] : n \in WorkerCounts}
  /\ readOnly = {}

\* runAudit up to the await of lighthouse(url, opts): launchChrome on
\* chromePort 9222, the temp directory, the audit under way.
LaunchChrome(w) ==
  /\ workers[w].pc = "idle"
  /\ used < MaxWrites
  /\ used' = used + 1
  /\ workers' = [workers EXCEPT ![w].pc = "auditing"]
  /\ UNCHANGED <<now, dirs, files, result, written, probe, readOnly>>

\* The audit returns: killChrome, the cleanup, generateReport(url, lhr).
FinishAudit(w) ==
  /\ workers[w].pc = "auditing"
  /\ \E report \in TestReportsAt(now) :
       workers' = [workers EXCEPT ![w] = [pc |-> "audited", report |-> <<report>>,
                                          path |-> <<>>]]
  /\ UNCHANGED <<now, dirs, files, result, written, used, probe, readOnly>>

\* saveReportWithDateTime up to the open of the document: the folder of the
\* clock, fs.ensureDir, and the file created empty of a whole report. A throw
\* ends the test in its catch.
openedDocument(w, opened) ==
  /\ dirs' = opened.dirs
  /\ files' = opened.files
  /\ IF opened.threw
     THEN /\ workers' = [workers EXCEPT ![w] = Idle]
          /\ result' = runResult("test", "failed", "failed", FALSE, <<>>, NotGenerated)
     ELSE /\ workers' = [workers EXCEPT ![w].pc = "writing", ![w].path = opened.path]
          /\ UNCHANGED result

OpenDocument(w) ==
  /\ workers[w].pc = "audited"
  /\ \E opened \in {ensureDirAndWrite(
                      dirs, files, ReportsRoot \o getDateTimePath(now).folder,
                      join(ReportsRoot \o getDateTimePath(now).folder,
                           "lighthouse-" \o ToString(now) \o ".json"),
                      PartialContent)} :
       openedDocument(w, opened)
  /\ UNCHANGED <<now, written, used, probe, readOnly>>

\* The rest of fs.writeJSON: the whole text is in the file. The four
\* expectations follow without an await.
WriteDocument(w) ==
  /\ workers[w].pc = "writing"
  /\ files' = writeFile(files, workers[w].path, JSONstringify(workers[w].report[1]))
  /\ written' = writeFile(written, workers[w].path,
                          [report |-> workers[w].report[1],
                           filename |-> <<Last(workers[w].path)>>, at |-> now])
  /\ IF expectScores(workers[w].report[1])
     THEN /\ workers' = [workers EXCEPT ![w].pc = "saved"]
          /\ UNCHANGED result
     ELSE /\ workers' = [workers EXCEPT ![w] = Idle]
          /\ result' = runResult("test", "failed", "failed", FALSE, <<>>, NotGenerated)
  /\ UNCHANGED <<now, dirs, used, probe, readOnly>>

\* The end of the test in a worker: fs.ensureDir(outputDir) and
\* saveConsolidatedReportWithDateTime(outputPath) over the store as it is.
workerRendered(w, out, g) ==
  /\ dirs' = out.dirs
  /\ files' = out.files
  /\ workers' = [workers EXCEPT ![w] = Idle]
  /\ result' = runResult("test", IF out.threw THEN "failed" ELSE "passed", "passed",
                         ~out.threw /\ out.path = <<>>, out.path, g)

RenderReport(w) ==
  /\ workers[w].pc = "saved"
  /\ ~ensureDirFails(dirs, files, TestOutputDir)
  /\ \E ls \in Listings(dirs, files, ScannedDirs(dirs, ReportsRoot)) :
     \E g \in {generateConsolidatedReportWithDateTime(dirs, files, ls, ReportsRoot, now)} :
     \E out \in {savedConsolidated(ensureDir(dirs, files, TestOutputDir), files, g,
                                   outputPathIn(TestOutputDir, now))} :
       workerRendered(w, out, g)
  /\ UNCHANGED <<now, written, used, probe, readOnly>>

NextParallel ==
  \/ Tick
  \/ \E w \in DOMAIN workers : LaunchChrome(w)
  \/ \E w \in DOMAIN workers : FinishAudit(w)
  \/ \E w \in DOMAIN workers : OpenDocument(w)
  \/ \E w \in DOMAIN workers : WriteDocument(w)
  \/ \E w \in DOMAIN workers : RenderReport(w)

SpecParallel == InitParallel /\ [][NextParallel]_vars

\* The workers between the launch of Chrome and the end of the store write.
RunsInProgress ==
  {w \in DOMAIN workers : workers[w].pc \in {"auditing", "audited", "writing"}}

\* The documents a worker has opened and not yet written whole.
DocumentsInProgress ==
  {workers[w].path : w \in {v \in DOMAIN workers : workers[v].pc = "writing"}}

\* C17 as stated: a scan among saves in progress reads whole documents only,
\* so that no scan of a test fails on the text of a document.
C17_ScanReadsWholeDocuments ==
  result.op = "test" => ~result.scanned.threw

\* The scan of one worker threw on the document another worker has opened
\* and not yet written whole; the test of the first failed after its audit
\* had passed.
C17_PartialDocumentRead ==
  /\ result.op = "test"
  /\ result.status = "failed"
  /\ result.audit = "passed"
  /\ result.scanned.threw
  /\ \E p \in DocumentsInProgress :
       /\ p \in FilesInTimeBuckets
       /\ files[p] = PartialContent
       /\ p \notin ScannedPaths

\* C18 as stated: at most one audit run, from the launch of Chrome to the
\* end of its store write, is in progress at any time.
C18_OneRunAtATime == Cardinality(RunsInProgress) <= 1

\* Two workers with their audits under way at once, both on Chrome port 9222.
C18_AuditsOverlap ==
  \E v, w \in DOMAIN workers :
    /\ v # w
    /\ workers[v].pc = "auditing"
    /\ workers[w].pc = "auditing"

\* The second of the clock a document was last saved in.
SecondOf(p) == written[p].at \div MsPerSecond

\* The places of a path in the list of the paths the scan read.
ReadAt(p) == {i \in 1..Len(result.scanned.paths) : result.scanned.paths[i] = p}

\* C19: documents saved in different seconds of the clock lie in different
\* (day, time) folders; a document holds the report of the last save to its
\* path; and a scan reads each path once and loads that last report.
C19_LastWriteWins ==
  /\ \A p, q \in DOMAIN written :
       SecondOf(p) # SecondOf(q) => dirname(p) # dirname(q)
  /\ \A p \in DOMAIN written :
       /\ p \in DOMAIN files
       /\ files[p] = JSONstringify(written[p].report)
  /\ (DateTimeRendered /\ result.status = "ok") =>
       \A p \in DOMAIN written \cap BucketedDocuments :
         /\ Cardinality(ReadAt(p)) = 1
         /\ \A i \in ReadAt(p) : SameReport(Loaded[i], written[p].report)

\* Two saves went to one path in one millisecond: the store holds a single
\* document, and the scan loaded one report.
C19_Witness ==
  /\ used = 2
  /\ Cardinality({p \in DOMAIN files : UnderRoot(p)}) = 1
  /\ Cardinality(DOMAIN written) = 1
  /\ DateTimeRendered
  /\ result.status = "ok"
  /\ Len(Loaded) = 1
  /\ \A p \in DOMAIN written : SameReport(Loaded[1], written[p].report)

\* Two documents saved half a second apart in one second share their
\* folder; a third second has a folder of its own.
C19_SameSecondWitness ==
  \E p, q \in DOMAIN written :
    /\ p # q
    /\ SecondOf(p) = SecondOf(q)
    /\ written[p].at # written[q].at
    /\ dirname(p) = dirname(q)

(***************************************************************************)
(* The store on a file system that takes the write permission away.        *)
(***************************************************************************)
\* chmod a-w on the reports root or on a directory above it, once.
RevokeWrite ==
  \E d \in Prefixes(ReportsRoot) :
    /\ d \in dirs
    /\ readOnly = {}
    /\ readOnly' = readOnly \cup {d}
    /\ result' = [NoResult EXCEPT !.op = "chmod", !.path = d]
    /\ UNCHANGED <<now, dirs, files, written, used, probe, workers>>

\* The date/time operations of the helper over it.
NextReadOnly ==
  \/ Tick
  \/ SaveReportWithDateTime
  \/ SaveConsolidatedReportWithDateTime
  \/ RevokeWrite

SpecReadOnly == Init /\ [][NextReadOnly]_vars

\* The folder a save at this instant goes to.
SaveFolder == ReportsRoot \o getDateTimePath(now).folder

\* The store root takes no save: it is there without write permission and
\* lacks the day folder of this instant, or it is not there and the deepest
\* directory above it that is there has no write permission.
RootNotWritable ==
  \/ /\ ReportsRoot \in dirs
     /\ ReportsRoot \in readOnly
     /\ SubSeq(SaveFolder, 1, Len(ReportsRoot) + 1) \notin dirs
  \/ /\ ReportsRoot \notin dirs
     /\ \E d \in Prefixes(ReportsRoot) :
          /\ d \in dirs /\ d \in readOnly
          /\ \A q \in Prefixes(ReportsRoot) : Len(q) > Len(d) => q \notin dirs

\* A step of saveReportWithDateTime: one call, one attempt.
SaveStep == result'.op = "saveReportWithDateTime" /\ used' = used + 1

NextArtifacts ==
  \/ Tick
  \/ RunAuditTest
  \/ Main
  \/ SaveConsolidatedReportWithDateTime

SpecArtifacts == Init /\ [][NextArtifacts]_vars

\* The rendered documents of the output location of the script and of the
\* helper's default.
RenderedDocuments ==
  {p \in DOMAIN files : dirname(p) = ScriptOutputDir /\ files[p].kind = "html"}

\* A step of the script or of the helper without an output path that wrote
\* a consolidated report.
RenderStep ==
  /\ result'.op \in {"main", "saveConsolidatedReportWithDateTime"}
  /\ now' = now
  /\ used' = used
  /\ result'.path # <<>>

withoutScore(r, category) ==
  [r EXCEPT !.scores = [k \in DOMAIN r.scores \ {category} |-> r.scores[k]]]

MixedPool ==
  ReportsAt(ClockStart, {"dateTime"})
    \cup {withoutScore(r, "seo") : r \in ReportsAt(ClockStart, {"dateTime"})}

InitMixed ==
  /\ now = ClockStart
  /\ dirs = {<<>>}
  /\ files = <<>>
  /\ written = <<>>
  /\ used = 0
  /\ probe = NoProbe
  /\ workers = NoWorkers
  /\ readOnly = {}
  /\ \E reports \in UNION {[1..n -> MixedPool] : n \in 1..MaxLoaded} :
       result = [NoResult EXCEPT !.op = "loaded", !.scanned.reports = reports]

SpecMixed == InitMixed /\ [][NextAggregate]_vars

\* C22 as stated: a report without a category adds 0 to the sum of the
\* category, and the mean shown is the numeral of round(sum of the scores
\* present / N), a number of 0..100.
C22_MissingCountsAsZero ==
  (result.op \in {"renderDateTime", "renderFlat"} /\ result.html # <<>>) =>
    \A i \in 1..Len(Summary) :
      Summary[i].label # "Total Reports" =>
        /\ IsNumeral(Summary[i].value)
        /\ ParseInt(Summary[i].value) \in 0..MaxScore
        /\ Summary[i].value
             = averageScoreMissingAsZero(Loaded, CardCategory(Summary[i].label))

\* Of two loaded reports one holds a SEO score and one does not: the
\* summary shows NaN for SEO next to the mean of the performance scores,
\* and the row of the second prints undefined.
C22_NaNShown ==
  /\ result.op = "renderDateTime"
  /\ Len(Loaded) = 2
  /\ "seo" \in DOMAIN Loaded[1].scores
  /\ "seo" \notin DOMAIN Loaded[2].scores
  /\ Card("Avg SEO").value = "NaN"
  /\ IsNumeral(Card("Avg Performance").value)
  /\ \E i \in 1..2 : result.html[1].rows[i].seo.text = "undefined"

(***************************************************************************)
(* generateReport over the audit results of its contract: category scores  *)
(* of 0..1, kept in hundredths, and metric audits missing or not negative. *)
(***************************************************************************)
AuditedUrls == {"https://playwright.dev", "https://staging.example.com/dashboard"}

\* The audits of an lhr: none, the three the reports show, or all six.
AuditInputs ==
  {<<>>,
   [fcp |-> [numericValue |-> 0], lcp |-> [numericValue |-> 2500499],
    cls |-> [numericValue |-> 43]],
   [fcp |-> [numericValue |-> 1799500], lcp |-> [numericValue |-> 2500499],
    cls |-> [numericValue |-> 0], fid |-> [numericValue |-> 16000],
    inp |-> [numericValue |-> 0], ttfb |-> [numericValue |-> 600000]]}

CategoryInputs ==
  {[performance |-> [score |-> p], accessibility |-> [score |-> a],
    bestPractices |-> [score |-> b], seo |-> [score |-> b]] :
     p \in 0..MaxScore, a \in {0, MaxScore}, b \in {1, 99}}
  \cup
  {[performance |-> [score |-> p], accessibility |-> [score |-> MaxScore],
    bestPractices |-> [score |-> 50], seo |-> [score |-> 0],
    pwa |-> [score |-> p]] : p \in {0, 30, MaxScore}}

LhrInputs == {[categories |-> c, audits |-> a] : c \in CategoryInputs, a \in AuditInputs}

InitGenerate ==
  /\ now = ClockStart
  /\ dirs = {<<>>}
  /\ files = <<>>
  /\ written = <<>>
  /\ used = 0
  /\ workers = NoWorkers
  /\ readOnly = {}
  /\ result = NoResult
  /\ probe \in {[url |-> u, lhr |-> l] : u \in AuditedUrls, l \in LhrInputs}

\* generateReport(url) once the audit has returned lhr.
GenerateReport ==
  /\ result.op = "none"
  /\ result' = [NoResult EXCEPT !.op = "generateReport",
                                !.scanned.reports = <<generateReport(probe.url, probe.lhr, now)>>]
  /\ UNCHANGED <<now, dirs, files, written, used, probe, workers, readOnly>>

NextGenerate == GenerateReport \/ Tick

SpecGenerate == InitGenerate /\ [][NextGenerate]_vars

\* C23: the report of generateReport holds the url it was asked for, the
\* ISO timestamp of the clock, the lhr as rawAudits, the four scores as
\* integers of 0..100 (the hundredths of the category scores) and the six
\* metrics, each the value of its audit or 0, none negative.
C23_ReportInvariant ==
  result.op = "generateReport" =>
    /\ DOMAIN Loaded[1] = {"url", "timestamp", "scores", "metrics", "rawAudits"}
    /\ Loaded[1].url = probe.url
    /\ Loaded[1].rawAudits = probe.lhr
    /\ \E k \in 0..MaxTicks :
         /\ ClockStart + k * TickMs <= now
         /\ Loaded[1].timestamp = toISOString(ClockStart + k * TickMs)
    /\ \A c \in {"performance", "accessibility", "bestPractices", "seo"} :
         /\ Loaded[1].scores[c] \in 0..MaxScore
         /\ Loaded[1].scores[c] = probe.lhr.categories[c].score
    /\ DOMAIN Loaded[1].metrics = MetricFields
    /\ \A k \in MetricFields :
         /\ Loaded[1].metrics[k] >= 0
         /\ Loaded[1].metrics[k]
              = (IF k \in DOMAIN probe.lhr.audits
                 THEN probe.lhr.audits[k].numericValue ELSE 0)

\* A report of an audit without metric audits and with the performance
\* score 1.0: the score 100 and the six metrics 0.
C23_Witness ==
  /\ result.op = "generateReport"
  /\ probe.lhr.audits = <<>>
  /\ probe.lhr.categories.performance.score = MaxScore
  /\ Loaded[1].scores.performance = 100
  /\ \A k \in MetricFields : Loaded[1].metrics[k] = 0
  /\ Loaded[1].url = "https://playwright.dev"

\* A step of the script or of the helper's consolidated save: a scan, the
\* aggregate, the render and the write of the HTML, and no save of a report.
ScanAndRenderStep ==
  /\ result'.op \in {"main", "saveConsolidatedReportWithDateTime"}
  /\ now' = now
  /\ used' = used

\* C24: a scan with its aggregate, render and HTML write leaves every
\* report document of the bucketed store where it is and as it is, and adds
\* none; the set of report documents changes only in a step that saves.
C24_RenderLeavesStore ==
  [][/\ ScanAndRenderStep =>
          /\ BucketedDocuments' = BucketedDocuments
          /\ \A p \in BucketedDocuments : files'[p] = files[p]
          /\ written' = written
     /\ BucketedDocuments' # BucketedDocuments =>
          /\ used' = used + 1
          /\ result'.op = "test"
          /\ BucketedDocuments \subseteq BucketedDocuments'
          /\ \A p \in BucketedDocuments' \ BucketedDocuments : p \in DOMAIN written']_vars

\* The script wrote its consolidated report over a store of two report
\* documents, each as its save left it.
C24_Witness ==
  /\ result.op = "main"
  /\ result.path \in DOMAIN files
  /\ files[result.path].kind = "html"
  /\ Cardinality(BucketedDocuments) = 2
  /\ \A p \in BucketedDocuments :
       /\ p \in DOMAIN written
       /\ files[p] = JSONstringify(written[p].report)
       /\ p \in ScannedPaths

(***************************************************************************)
(* tests/utils/helpers.ts: retry(fn, maxAttempts, delayMs).  probe holds   *)
(* the arguments and what each call of fn does; result holds the loop.     *)
(***************************************************************************)
MaxAttempts == 4

DelayArgs == {250, 1000}

\* What fn does at each of its calls: resolve (TRUE) or reject (FALSE).
FnOutcomes == [1..MaxAttempts -> BOOLEAN]

\* The value the k-th call of fn resolves to, the error it rejects with, and
\* new Error('Retry failed').
ValueOf(k) == [kind |-> "value", call |-> k]
ErrorOf(k) == [kind |-> "error", call |-> k]
RetryFailed == [kind |-> "error", call |-> 0]

\* for (let attempt = 1; ...) before the first test of the loop condition
RetryStart ==
  [op |-> "retry", pc |-> "loop", attempt |-> 1, calls |-> 0, waits |-> <<>>,
   status |-> "running", outcome |-> <<>>]

InitRetry ==
  /\ now = ClockStart
  /\ dirs = {<<>>}
  /\ files = <<>>
  /\ written = <<>>
  /\ used = 0
  /\ workers = NoWorkers
  /\ readOnly = {}
  /\ probe \in {[maxAttempts |-> m, delayMs |-> d, fn |-> o] :
                  m \in -1..MaxAttempts, d \in DelayArgs, o \in FnOutcomes}
  /\ result = RetryStart

\* A test `attempt >= maxAttempts - 1` in place of the code's.
givesUpOneEarly(attempt, maxAttempts) == attempt >= maxAttempts - 1

\* if (attempt === maxAttempts) throw error
givesUp(attempt, maxAttempts) == attempt = maxAttempts

\* delay(delayMs * attempt)
backoff(delayMs, attempt) == delayMs * attempt

\* try { return await fn() } catch (error) { if (...) throw error; ... }
CallFn ==
  /\ result.pc = "loop"
  /\ result.attempt <= probe.maxAttempts
  /\ result' =
       IF probe.fn[result.attempt]
       THEN [result EXCEPT !.pc = "done", !.calls = @ + 1, !.status = "returned",
                           !.outcome = <<ValueOf(result.attempt)>>]
       ELSE IF givesUp(result.attempt, probe.maxAttempts)
       THEN [result EXCEPT !.pc = "done", !.calls = @ + 1, !.status = "threw",
                           !.outcome = <<ErrorOf(result.attempt)>>]
       ELSE [result EXCEPT !.pc = "delay", !.calls = @ + 1]
  /\ UNCHANGED <<now, dirs, files, written, used, probe, workers, readOnly>>

\* await delay(delayMs * attempt); attempt++
Delay ==
  /\ result.pc = "delay"
  /\ result' = [result EXCEPT !.pc = "loop", !.attempt = @ + 1,
                              !.waits = Append(@, backoff(probe.delayMs, result.attempt))]
  /\ UNCHANGED <<now, dirs, files, written, used, probe, workers, readOnly>>

\* The loop condition fails: throw new Error('Retry failed')
LeaveLoop ==
  /\ result.pc = "loop"
  /\ result.attempt > probe.maxAttempts
  /\ result' = [result EXCEPT !.pc = "done", !.status = "threw",
                              !.outcome = <<RetryFailed>>]
  /\ UNCHANGED <<now, dirs, files, written, used, probe, workers, readOnly>>

NextRetry == CallFn \/ Delay \/ LeaveLoop

SpecRetry == InitRetry /\ [][NextRetry]_vars

Waits == result.waits

\* C25 as stated: the waits grow exponentially from delayMs: the first is
\* delayMs and each later one is the same multiple, above 1, of the one
\* before it.
C25_ExponentialBackoff ==
  /\ Len(Waits) >= 1 => Waits[1] = probe.delayMs
  /\ \A i \in 2..Len(Waits) : Waits[i] > Waits[i - 1]
  /\ \A i \in 3..Len(Waits) : Waits[i] * Waits[i - 2] = Waits[i - 1] * Waits[i - 1]

\* After three failed calls with delayMs 1000 the waits were 1000, 2000 and
\* 3000 ms: steps of delayMs, not a constant multiple.
C25_LinearWaits ==
  /\ probe.delayMs = 1000
  /\ result.calls = 3
  /\ Waits = <<1000, 2000, 3000>>

\* The calls of fn retry may make: maxAttempts, or none for maxAttempts <= 0.
CallsAllowed == IF probe.maxAttempts > 0 THEN probe.maxAttempts ELSE 0

\* C28: retry calls fn at most maxAttempts times; it returns the result of
\* the first call that resolves, every call before it having rejected; it
\* waits once between two calls and not after the last; after maxAttempts
\* rejections it throws the error of the last call; and for
\* maxAttempts <= 0 it calls nothing and throws 'Retry failed'.
C28_RetryContract ==
  result.op = "retry" =>
    /\ result.calls <= CallsAllowed
    /\ \A k \in 1..result.calls : k < result.calls => ~probe.fn[k]
    /\ Len(Waits) \in {result.calls - 1, result.calls}
    /\ (result.calls >= 1 /\ Len(Waits) = result.calls) => result.pc = "loop"
    /\ result.status = "returned" =>
         /\ result.calls >= 1
         /\ probe.fn[result.calls]
         /\ result.outcome = <<ValueOf(result.calls)>>
         /\ Len(Waits) = result.calls - 1
    /\ (result.status = "threw" /\ probe.maxAttempts >= 1) =>
         /\ result.calls = probe.maxAttempts
         /\ ~probe.fn[result.calls]
         /\ result.outcome = <<ErrorOf(result.calls)>>
         /\ Len(Waits) = probe.maxAttempts - 1
    /\ probe.maxAttempts <= 0 =>
         /\ result.calls = 0
         /\ Waits = <<>>
         /\ result.status # "returned"
         /\ result.pc = "done" => result.outcome = <<RetryFailed>>
    /\ (result.pc = "done") <=> (result.status # "running")

\* retry returned the value of the third call after two rejections and two
\* waits, with a fourth attempt left unused.
C28_Witness ==
  /\ result.op = "retry"
  /\ probe.maxAttempts = 4
  /\ result.status = "returned"
  /\ result.calls = 3
  /\ result.outcome = <<ValueOf(3)>>
  /\ Len(Waits) = 2

\* retry threw the error of its fourth and last call after three waits.
C28_LastErrorWitness ==
  /\ result.op = "retry"
  /\ probe.maxAttempts = 4
  /\ result.status = "threw"
  /\ result.outcome = <<ErrorOf(4)>>
  /\ Len(Waits) = 3

(***************************************************************************)
(* The threshold checks of LighthouseHelper.  Metrics and their thresholds *)
(* are kept in thousandths: 1800 ms is 1800000, a CLS of 0.1 is 100.       *)
(***************************************************************************)
\* { ...defaults, ...thresholds }
spread(defaults, thresholds) ==
  [k \in DOMAIN defaults \cup DOMAIN thresholds |->
     IF k \in DOMAIN thresholds THEN thresholds[k] ELSE defaults[k]]

ScoreDefaults ==
  [performance |-> 50, accessibility |-> 50, bestPractices |-> 50, seo |-> 50]

MetricDefaults ==
  [fcp |-> 1800000, lcp |-> 2500000, cls |-> 100, fid |-> 100000, inp |-> 200000,
   ttfb |-> 600000]

\* A comparison that also reports a score equal to its threshold.
belowOrAt(score, threshold) == score <= threshold

\* scores.<category> < defaults.<category>
below(score, threshold) == score < threshold

\* The issue an if statement pushes.
issue(key, values, limits) ==
  [of |-> key, value |-> ToString(values[key]), threshold |-> ToString(limits[key])]

\* The if statements of assertScoresAboveThreshold, in their order.
RECURSIVE scoreIssues(_, _, _)
scoreIssues(checked, scores, limits) ==
  IF checked = <<>> THEN <<>>
  ELSE (IF below(scores[Head(checked)], limits[Head(checked)])
        THEN <<issue(Head(checked), scores, limits)>> ELSE <<>>)
       \o scoreIssues(Tail(checked), scores, limits)

assertResult(issues) == [passed |-> Len(issues) = 0, issues |-> issues]

\* assertScoresAboveThreshold(scores, thresholds)
assertScoresAboveThreshold(scores, thresholds) ==
  assertResult(scoreIssues(<<"performance", "accessibility", "bestPractices", "seo">>,
                           scores, spread(ScoreDefaults, thresholds)))

\* metrics.<metric> > defaults.<metric>
exceeds(value, threshold) == value > threshold

\* The if statements of assertMetricsBelowThreshold, in their order.
RECURSIVE metricIssues(_, _, _)
metricIssues(checked, metrics, limits) ==
  IF checked = <<>> THEN <<>>
  ELSE (IF exceeds(metrics[Head(checked)], limits[Head(checked)])
        THEN <<issue(Head(checked), metrics, limits)>> ELSE <<>>)
       \o metricIssues(Tail(checked), metrics, limits)

\* assertMetricsBelowThreshold(metrics, thresholds)
assertMetricsBelowThreshold(metrics, thresholds) ==
  assertResult(metricIssues(<<"fcp", "lcp", "cls", "ttfb">>,
                            metrics, spread(MetricDefaults, thresholds)))

ScoreArgs ==
  {[performance |-> p, accessibility |-> a, bestPractices |-> b, seo |-> s] :
     p \in {49, 50, 59, 60}, a \in {49, 50, 85}, b \in {50, 79, 80}, s \in {0, 50, 85}}

ScoreThresholdArgs ==
  {<<>>,
   [performance |-> 60],
   [seo |-> 0],
   [bestPractices |-> 80, pwa |-> 30],
   [performance |-> 60, accessibility |-> 85, bestPractices |-> 80, seo |-> 85]}

MetricArgs ==
  {[fcp |-> f, lcp |-> l, cls |-> c, fid |-> d, inp |-> i, ttfb |-> t] :
     f \in {1800000, 1800001}, l \in {2500000, 3000001}, c \in {100, 101, 150},
     d \in {0, 500000}, i \in {0, 900000}, t \in {600000, 800001}}

MetricThresholdArgs ==
  {<<>>,
   [fid |-> 300000],
   [inp |-> 1000000, cls |-> 150],
   [fcp |-> 2000000, lcp |-> 3000000, cls |-> 150, ttfb |-> 800000]}

InitThresholds ==
  /\ now = ClockStart
  /\ dirs = {<<>>}
  /\ files = <<>>
  /\ written = <<>>
  /\ used = 0
  /\ workers = NoWorkers
  /\ readOnly = {}
  /\ result = NoResult
  /\ probe \in {[of |-> "scores", values |-> v, thresholds |-> t] :
                  v \in ScoreArgs, t \in ScoreThresholdArgs}
             \cup {[of |-> "metrics", values |-> v, thresholds |-> t] :
                     v \in MetricArgs, t \in MetricThresholdArgs}

AssertScoresAboveThreshold ==
  /\ result = NoResult
  /\ probe.of = "scores"
  /\ \E a \in {assertScoresAboveThreshold(probe.values, probe.thresholds)} :
       result' = [op |-> "assertScoresAboveThreshold", passed |-> a.passed,
                  issues |-> a.issues]
  /\ UNCHANGED <<now, dirs, files, written, used, probe, workers, readOnly>>

AssertMetricsBelowThreshold ==
  /\ result = NoResult
  /\ probe.of = "metrics"
  /\ \E a \in {assertMetricsBelowThreshold(probe.values, probe.thresholds)} :
       result' = [op |-> "assertMetricsBelowThreshold", passed |-> a.passed,
                  issues |-> a.issues]
  /\ UNCHANGED <<now, dirs, files, written, used, probe, workers, readOnly>>

NextThresholds == AssertScoresAboveThreshold \/ AssertMetricsBelowThreshold

SpecThresholds == InitThresholds /\ [][NextThresholds]_vars

\* The threshold of a check: the one supplied, or the default.
ThresholdOf(key, defaults) ==
  IF key \in DOMAIN probe.thresholds THEN probe.thresholds[key] ELSE defaults[key]

ScoreCategories == {"performance", "accessibility", "bestPractices", "seo"}

\* C26: assertScoresAboveThreshold passes exactly when each of the four
\* scores is at or above its threshold (the one supplied, or 50), and
\* reports one issue for each score strictly below its threshold.
C26_ScoresAgainstThresholds ==
  result.op = "assertScoresAboveThreshold" =>
    /\ result.passed <=>
         \A c \in ScoreCategories : probe.values[c] >= ThresholdOf(c, ScoreDefaults)
    /\ Len(result.issues)
         = Cardinality({c \in ScoreCategories :
                          probe.values[c] < ThresholdOf(c, ScoreDefaults)})
    /\ \A i \in 1..Len(result.issues) :
         probe.values[result.issues[i].of] < ThresholdOf(result.issues[i].of, ScoreDefaults)

\* Scores at their thresholds pass: performance 60 against the supplied 60
\* and accessibility 50 against the default 50.
C26_Witness ==
  /\ result.op = "assertScoresAboveThreshold"
  /\ probe.thresholds = [performance |-> 60]
  /\ probe.values.performance = 60
  /\ probe.values.accessibility = 50
  /\ result.passed
  /\ result.issues = <<>>

\* Two scores below their thresholds give two issues.
C26_IssuesWitness ==
  /\ result.op = "assertScoresAboveThreshold"
  /\ probe.thresholds = <<>>
  /\ ~result.passed
  /\ {result.issues[i].of : i \in 1..Len(result.issues)} = {"performance", "seo"}

\* C27 as stated: assertMetricsBelowThreshold fails whenever one of fcp,
\* lcp, cls, fid, inp, ttfb exceeds its threshold, and passes only when
\* none does.
C27_EveryMetricChecked ==
  result.op = "assertMetricsBelowThreshold" =>
    (result.passed <=>
       \A k \in MetricFields : probe.values[k] <= ThresholdOf(k, MetricDefaults))

\* The check passed metrics whose fid of 500 ms is above the default 100 ms
\* and whose inp of 900 ms is above the default 200 ms.
C27_FidAndInpPass ==
  /\ result.op = "assertMetricsBelowThreshold"
  /\ probe.thresholds = <<>>
  /\ probe.values.fid = 500000
  /\ probe.values.inp = 900000
  /\ result.passed
  /\ result.issues = <<>>

(***************************************************************************)
(* runAudit on the lighthouseHelper singleton.  probe holds the helper's   *)
(* this.chrome, the Chrome instances that run and the number launched;     *)
(* workers holds the calls of runAudit in the process, each at its await.  *)
(***************************************************************************)
MaxCalls == 2

NoCall == [pc |-> "idle", chrome |-> 0, audit |-> "", status |-> ""]

InitChrome ==
  /\ now = ClockStart
  /\ dirs = {<<>>}
  /\ files = <<>>
  /\ written = <<>>
  /\ used = 0
  /\ readOnly = {}
  /\ result = NoResult
  /\ probe = [chrome |-> Undefined, running |-> {}, launched |-> 0]
  /\ workers = [c \in 1..MaxCalls |-> NoCall]

\* launchChrome(): this.chrome = await chromeLauncher.launch({ port: 9222 })
LaunchChromeFor(c) ==
  /\ workers[c].pc = "idle"
  /\ probe' = [chrome |-> <<probe.launched + 1>>,
               running |-> probe.running \cup {probe.launched + 1},
               launched |-> probe.launched + 1]
  /\ workers' = [workers EXCEPT ![c].pc = "launched", ![c].chrome = probe.launched + 1]
  /\ UNCHANGED <<now, dirs, files, result, written, used, readOnly>>

\* await fs.ensureDir(customTempDir), before the try: it resolves, or it
\* rejects and runAudit throws.
EnsureTempDir(c) ==
  /\ workers[c].pc = "launched"
  /\ \/ workers' = [workers EXCEPT ![c].pc = "auditing"]
     \/ workers' = [workers EXCEPT ![c].pc = "done", ![c].status = "threw"]
  /\ UNCHANGED <<now, dirs, files, result, written, used, probe, readOnly>>

\* killChrome(): if (this.chrome) await this.chrome.kill()
killChrome(helper) ==
  IF helper.chrome = Undefined THEN helper
  ELSE [helper EXCEPT !.running = @ \ {helper.chrome[1]}]

\* lighthouse(url, opts) resolves or rejects; killChrome() follows in the
\* try or in the catch.
AuditSettles(c) ==
  /\ workers[c].pc = "auditing"
  /\ \E audit \in {"resolved", "rejected"} :
       workers' = [workers EXCEPT ![c].pc = "cleanup", ![c].audit = audit]
  /\ probe' = killChrome(probe)
  /\ UNCHANGED <<now, dirs, files, result, written, used, readOnly>>

\* try { await fs.remove(customTempDir) } catch { console.warn }; then the
\* return of runnerResult or the throw of the audit's error.
RemoveTempDir(c) ==
  /\ workers[c].pc = "cleanup"
  /\ \E removed \in BOOLEAN :
       workers' = [workers EXCEPT ![c].pc = "done",
                     ![c].status = IF workers[c].audit = "resolved"
                                   THEN "returned" ELSE "threw"]
  /\ UNCHANGED <<now, dirs, files, result, written, used, probe, readOnly>>

NextChrome ==
  \/ \E c \in DOMAIN workers : LaunchChromeFor(c)
  \/ \E c \in DOMAIN workers : EnsureTempDir(c)
  \/ \E c \in DOMAIN workers : AuditSettles(c)
  \/ \E c \in DOMAIN workers : RemoveTempDir(c)

SpecChrome == InitChrome /\ [][NextChrome]_vars

\* C29 as stated: when a call of runAudit has returned or thrown, the
\* Chrome it launched runs no more, whether or not calls overlapped; and
\* the call returns exactly when its audit resolved.
C29_EveryChromeKilled ==
  \A c \in DOMAIN workers :
    workers[c].pc = "done" =>
      /\ workers[c].chrome \notin probe.running
      /\ workers[c].audit = "resolved" <=> workers[c].status = "returned"

\* Two overlapping calls have both returned after audits that resolved, and
\* the Chrome of the first still runs: both kills went to the instance
\* this.chrome held last.
C29_ChromeLeftRunning ==
  /\ \A c \in DOMAIN workers : workers[c].pc = "done" /\ workers[c].status = "returned"
  /\ probe.launched = 2
  /\ probe.running = {1}
  /\ probe.chrome = <<2>>

\* A single call threw at fs.ensureDir, between the launch and the try: the
\* Chrome it launched runs, and no other call has started.
C29_LeftRunningWithoutOverlap ==
  /\ workers[1].pc = "done"
  /\ workers[1].status = "threw"
  /\ workers[1].audit = ""
  /\ workers[2].pc = "idle"
  /\ probe.running = {workers[1].chrome}

(***************************************************************************)
(* globalTeardown: after the run, the HTML reports of lighthouse-reports   *)
(* are copied into playwright-report/lighthouse-reports.                   *)
(***************************************************************************)
sourceDir == <<"lighthouse-reports">>
PlaywrightReport == <<"playwright-report">>
destDir == <<"playwright-report", "lighthouse-reports">>

HtmlNames == {"a.html", "b.html"}
OtherNames == {"notes.json"}
HtmlBodies == {"first", "second"}
HtmlDocument(body) == [kind |-> "html", body |-> body]
OtherDocument == [kind |-> "text", body |-> "notes"]

\* What a name of lighthouse-reports can be before the teardown: nothing, a
\* file, or (for an entry some other tool made) a directory.
EntryStates(name) ==
  IF name \in OtherNames THEN {"absent", "file"}
  ELSE {"absent", "dir"} \cup HtmlBodies

entryContent(name, state) ==
  IF name \in OtherNames THEN OtherDocument ELSE HtmlDocument(state)

\* lighthouse-reports is missing, is a file, or is a directory with entries.
SourceStates ==
  {[kind |-> k, entries |-> [n \in {} |-> "absent"]] : k \in {"missing", "file"}}
  \cup {[kind |-> "dir", entries |-> e] :
          e \in {g \in [HtmlNames \cup OtherNames -> {"absent", "dir", "file"} \cup HtmlBodies] :
                   \A n \in DOMAIN g : g[n] \in EntryStates(n)}}

\* playwright-report is missing, is a file, is an empty directory, holds a
\* file named lighthouse-reports, or holds that directory with or without a
\* copy of an earlier run.
DestStates == {"missing", "parentIsFile", "parent", "isFile", "empty", "stale"}

sourceDirs(src) ==
  IF src.kind # "dir" THEN {}
  ELSE {sourceDir} \cup {join(sourceDir, n) : n \in {m \in DOMAIN src.entries : src.entries[m] = "dir"}}

sourceFiles(src) ==
  IF src.kind = "missing" THEN <<>>
  ELSE IF src.kind = "file" THEN [p \in {sourceDir} |-> OtherDocument]
  ELSE [p \in {join(sourceDir, n) : n \in {m \in DOMAIN src.entries : src.entries[m] \notin {"absent", "dir"}}} |->
          entryContent(Last(p), src.entries[Last(p)])]

destDirs(dst) ==
  IF dst \in {"missing", "parentIsFile"} THEN {}
  ELSE IF dst \in {"parent", "isFile"} THEN {PlaywrightReport}
  ELSE {PlaywrightReport, destDir}

destFiles(dst) ==
  IF dst = "parentIsFile" THEN [p \in {PlaywrightReport} |-> OtherDocument]
  ELSE IF dst = "isFile" THEN [p \in {destDir} |-> OtherDocument]
  ELSE IF dst = "stale" THEN [p \in {join(destDir, "a.html")} |-> HtmlDocument("second")]
  ELSE <<>>

TeardownStart == [op |-> "start", threw |-> FALSE, caught |-> FALSE, preserved |-> 0, before |-> <<>>]

InitTeardown ==
  /\ now = ClockStart
  /\ \E src \in SourceStates, dst \in DestStates :
       /\ dirs = {<<>>} \cup sourceDirs(src) \cup destDirs(dst)
       /\ files = sourceFiles(src) @@ destFiles(dst)
  /\ readOnly \in {{}, {<<>>}, {PlaywrightReport}, {destDir}}
  /\ readOnly \subseteq dirs
  /\ result = TeardownStart
  /\ written = <<>>
  /\ used = 0
  /\ probe = NoProbe
  /\ workers = NoWorkers

\* fs.existsSync
existsSync(d, f, p) == pathExists(d, f, p)

\* files.filter(f => f.endsWith('.html'))
htmlFiles(d, f, dir) == {p \in Entries(d, f, dir) : endsWith(Last(p), ".html")}

\* fs.copyFileSync(src, dest): fails on a source that is not a file and
\* where writing the destination fails; replaces an existing destination.
copyFileSyncFails(d, f, src, dest) == src \notin DOMAIN f \/ writeFileFails(d, f, dest)
copyFileSync(f, src, dest) == writeFile(f, dest, f[src])

\* for (const file of htmlFiles) { copyFileSync(...) } in the order
\* fs.readdirSync listed them, left at the first copy that throws.
RECURSIVE copyAll(_, _, _, _)
copyAll(d, f, order, n) ==
  IF order = <<>> THEN [files |-> f, caught |-> FALSE, preserved |-> n]
  ELSE IF copyFileSyncFails(d, f, Head(order), join(destDir, Last(Head(order))))
       THEN [files |-> f, caught |-> TRUE, preserved |-> n]
       ELSE copyAll(d, copyFileSync(f, Head(order), join(destDir, Last(Head(order)))),
                    Tail(order), n + 1)

\* if (!fs.existsSync(destDir)) fs.mkdirSync(destDir, { recursive: true })
mkdirSyncFails(d, f) == ~existsSync(d, f, destDir) /\ ensureDirFails(d, f, destDir)
afterMkdirSync(d, f) == IF existsSync(d, f, destDir) THEN d ELSE ensureDir(d, f, destDir)

teardownResult(caught, preserved, before) ==
  [op |-> "globalTeardown", threw |-> FALSE, caught |-> caught, preserved |-> preserved, before |-> before]

\* The whole of globalTeardown, its try and its catch.
GlobalTeardown ==
  /\ result.op = "start"
  /\ IF ~existsSync(dirs, files, sourceDir)
     THEN /\ dirs' = dirs
          /\ files' = files
          /\ result' = teardownResult(FALSE, 0, files)
     ELSE IF mkdirSyncFails(dirs, files)
     THEN /\ dirs' = dirs
          /\ files' = files
          /\ result' = teardownResult(TRUE, 0, files)
     ELSE IF sourceDir \notin dirs
     THEN /\ dirs' = afterMkdirSync(dirs, files)
          /\ files' = files
          /\ result' = teardownResult(TRUE, 0, files)
     ELSE IF htmlFiles(dirs, files, sourceDir) = {}
     THEN /\ dirs' = afterMkdirSync(dirs, files)
          /\ files' = files
          /\ result' = teardownResult(FALSE, 0, files)
     ELSE /\ dirs' = afterMkdirSync(dirs, files)
          /\ \E order \in Orders(htmlFiles(dirs, files, sourceDir)) :
               \E done \in {copyAll(dirs', files, order, 0)} :
                 /\ files' = done.files
                 /\ result' = teardownResult(done.caught, done.preserved, files)
  /\ UNCHANGED <<now, written, used, probe, workers, readOnly>>

\* The next run of the suite starts from what this teardown left.
NextRun ==
  /\ result.op = "globalTeardown"
  /\ result' = TeardownStart
  /\ UNCHANGED <<now, dirs, files, written, used, probe, workers, readOnly>>

NextTeardown == GlobalTeardown \/ NextRun

SpecTeardown == InitTeardown /\ [][NextTeardown]_vars

\* The .html files of lighthouse-reports in a file system.
SourceHtml(d, f) == {p \in DOMAIN f : dirname(p) = sourceDir /\ endsWith(Last(p), ".html")}
SourceFilesOf(f) == {p \in DOMAIN f : p = sourceDir \/ (Len(p) > 0 /\ dirname(p) = sourceDir)}
NothingToPreserve(d, f) == ~existsSync(d, f, sourceDir) \/ SourceHtml(d, f) = {}

TeardownStep == result.op = "start" /\ result'.op = "globalTeardown"

\* What holds of every teardown, whether or not it caught an error: it does
\* not throw, with nothing to preserve it creates no file, what it creates
\* or changes is the copy of an .html file of lighthouse-reports, and the
\* files of lighthouse-reports stay as they were.
TeardownFrame ==
  /\ result'.threw = FALSE
  /\ NothingToPreserve(dirs, files) => DOMAIN files' = DOMAIN files
  /\ DOMAIN files \subseteq DOMAIN files'
  /\ \A p \in DOMAIN files' :
       \/ p \in DOMAIN files /\ files'[p] = files[p]
       \/ /\ dirname(p) = destDir
          /\ join(sourceDir, Last(p)) \in SourceHtml(dirs, files)
          /\ files'[p] = files[join(sourceDir, Last(p))]
  /\ \A p \in SourceFilesOf(files) : files'[p] = files[p]

EveryHtmlPreserved ==
  \A p \in SourceHtml(dirs, files) :
    /\ join(destDir, Last(p)) \in DOMAIN files'
    /\ files'[join(destDir, Last(p))] = files[p]

\* C30 as stated: after any teardown over a lighthouse-reports that holds
\* .html files, every one of them lies with the same content in
\* playwright-report/lighthouse-reports.
C30_EveryHtmlPreserved ==
  [][TeardownStep => (TeardownFrame /\ (~NothingToPreserve(dirs, files) => EveryHtmlPreserved))]_vars

\* C30: globalTeardown never throws; with no lighthouse-reports or no .html
\* file in it, it creates no file; it copies nothing but .html files of
\* lighthouse-reports and leaves the sources as they were; and when it
\* caught no error, every .html file of lighthouse-reports lies with the
\* same content in playwright-report/lighthouse-reports. After a caught
\* error the copies made before it stay, and of the entries ending in .html
\* at least one has no copy made by this teardown.
C30_PreservedUnlessCaught ==
  [][TeardownStep =>
       /\ TeardownFrame
       /\ (~NothingToPreserve(dirs, files) /\ ~result'.caught) => EveryHtmlPreserved
       /\ result'.caught =>
            \/ result'.preserved < Cardinality(htmlFiles(dirs, files, sourceDir))
            \/ htmlFiles(dirs, files, sourceDir) = {} /\ result'.preserved = 0]_vars

\* A teardown without error copied two .html files over a destination that
\* held an older copy of one of them, and left notes.json where it was.
C30_Witness ==
  /\ result.op = "globalTeardown"
  /\ ~result.caught
  /\ result.preserved = 2
  /\ join(sourceDir, "notes.json") \in DOMAIN files
  /\ join(destDir, "notes.json") \notin DOMAIN files
  /\ join(destDir, "a.html") \in DOMAIN result.before
  /\ result.before[join(destDir, "a.html")] # files[join(destDir, "a.html")]
  /\ \A n \in HtmlNames : files[join(destDir, n)] = files[join(sourceDir, n)]

\* A teardown returned after a caught error, and an .html file of
\* lighthouse-reports has no copy, with every directory writable and the
\* destination directory in place: the copy of a directory whose name ends
\* in .html threw before the file's turn came.
C30_CaughtWitness ==
  /\ result.op = "globalTeardown"
  /\ result.caught
  /\ ~result.threw
  /\ readOnly = {}
  /\ destDir \in dirs
  /\ \E p \in SourceHtml(dirs, files) : join(destDir, Last(p)) \notin DOMAIN files

\* lighthouse-reports holds no .html file: the teardown made the
\* destination directory and no file.
C30_NothingWitness ==
  /\ result.op = "globalTeardown"
  /\ ~result.caught
  /\ sourceDir \in dirs
  /\ SourceHtml(dirs, files) = {}
  /\ destDir \in dirs
  /\ DOMAIN files = DOMAIN result.before

====
